---- MODULE Spec2Model ----
(***************************************************************************)
(* Model of the constrained lipid-name matching engine of                  *)
(* lipid_data_processing/notation (matching.py, parsing.py).               *)
(*                                                                         *)
(* A pandas DataFrame is a sequence of rows (row order is kept, because    *)
(* the code aligns some frames by position); a row's index label is a      *)
(* field of the row.  A ParsedDataset is a sequence of entries whose index *)
(* label is the row number.  Names and component descriptors are strings   *)
(* and the string operations of the code work on their characters.         *)
(***************************************************************************)
EXTENDS Integers, Sequences, FiniteSets, TLC

(***************************************************************************)
(* Bounds of the model.                                                    *)
(***************************************************************************)
MaxToMatch == 2

MaxMatchTo == 2

(***************************************************************************)
(* Generic helpers on sequences.                                           *)
(***************************************************************************)
Range(s) == {s[i] : i \in 1..Len(s)}

\* A function on 1..n as a list: its elements are computed when the list
\* is built, as the elements of a pandas column are.
List(f) == SubSeq(f, 1, Len(f))

Indices(n) == List([i \in 1..n |-> i])

Map(Op(_), s) == List([k \in 1..Len(s) |-> Op(s[k])])

\* The concatenation of the lists of ss, in order.
RECURSIVE Flatten(_)
Flatten(ss) ==
    IF Len(ss) = 0 THEN <<>>
    ELSE IF Len(ss) = 1 THEN ss[1]
    ELSE LET half == Len(ss) \div 2
         IN  Flatten(SubSeq(ss, 1, half))
                 \o Flatten(SubSeq(ss, half + 1, Len(ss)))

\* pandas DataFrame.drop_duplicates(): keeps the first of equal rows.
drop_duplicates(rows) ==
    LET first == SelectSeq(Indices(Len(rows)),
                           LAMBDA k : \A j \in 1..(k - 1) : rows[j] /= rows[k])
    IN  Map(LAMBDA k : rows[k], first)

\* pandas.unique() followed by dropna(): distinct non-NaN values in order.
NaN == "<NaN>"

unique_dropna(vals) == SelectSeq(drop_duplicates(vals), LAMBDA v : v /= NaN)

(***************************************************************************)
(* String operations.                                                      *)
(***************************************************************************)
Digits == {"0", "1", "2", "3", "4", "5", "6", "7", "8", "9"}

CharAt(s, i) == SubSeq(s, i, i)

StrFrom(s, i) == SubSeq(s, i, Len(s))

\* str.startswith
startswith(s, prefix) ==
    /\ Len(prefix) <= Len(s)
    /\ SubSeq(s, 1, Len(prefix)) = prefix

\* str.replace(pat, repl) with a literal pattern: every non-overlapping
\* occurrence, scanning from the left.
RECURSIVE str_replace(_, _, _)
str_replace(s, pat, repl) ==
    LET starts == { i \in 1..Len(s) :
                      Len(pat) > 0 /\ startswith(StrFrom(s, i), pat) }
    IN  IF starts = {} THEN s
        ELSE LET i == CHOOSE j \in starts : \A k \in starts : j <= k
             IN  SubSeq(s, 1, i - 1) \o repl
                     \o str_replace(StrFrom(s, i + Len(pat)), pat, repl)

\* Number of leading decimal digits of s from position i on.
RECURSIVE DigitRun(_, _)
DigitRun(s, i) ==
    IF i <= Len(s) /\ CharAt(s, i) \in Digits THEN 1 + DigitRun(s, i + 1)
    ELSE 0

\* Length of the match of the regex ";[0-9]+OH" at the start of s, 0 if none.
HydroxylationMatchLen(s) ==
    IF Len(s) >= 1 /\ CharAt(s, 1) = ";"
    THEN LET n == DigitRun(s, 2)
         IN  IF n >= 1 /\ n + 3 <= Len(s) /\ SubSeq(s, n + 2, n + 3) = "OH"
             THEN n + 3 ELSE 0
    ELSE 0

\* Length of the match of the regex "[OP]-" at the start of s, 0 if none.
BondAlterationMatchLen(s) ==
    IF Len(s) >= 2 /\ CharAt(s, 1) \in {"O", "P"} /\ CharAt(s, 2) = "-"
    THEN 2 ELSE 0

\* Length of the match of one of the two regexes of matching.py at the
\* start of s, 0 if there is none.
RegexMatchLen(pattern, s) ==
    IF pattern = "[OP]-" THEN BondAlterationMatchLen(s)
    ELSE IF pattern = ";[0-9]+OH" THEN HydroxylationMatchLen(s)
    ELSE 0

\* Series.str.replace(pattern, "", regex=True): every non-overlapping match
\* is removed, scanning from the left.
RECURSIVE remove_matches(_, _)
remove_matches(pattern, s) ==
    LET starts == { i \in 1..Len(s) :
                      RegexMatchLen(pattern, StrFrom(s, i)) > 0 }
    IN  IF starts = {} THEN s
        ELSE LET i == CHOOSE j \in starts : \A k \in starts : j <= k
                 n == RegexMatchLen(pattern, StrFrom(s, i))
             IN  SubSeq(s, 1, i - 1)
                     \o remove_matches(pattern, StrFrom(s, i + n))

\* The replacement anchored at the end: Series.str.replace(";[0-9]+OH$", "").
remove_hydroxylations_anchored(name) ==
    LET ends == { i \in 1..Len(name) :
                    /\ HydroxylationMatchLen(StrFrom(name, i)) > 0
                    /\ HydroxylationMatchLen(StrFrom(name, i)) = Len(name) - i + 1 }
    IN  IF ends = {} THEN name
        ELSE SubSeq(name, 1, (CHOOSE i \in ends : TRUE) - 1)

\* _remove_hydroxylations: Series.str.replace(";[0-9]+OH", "", regex=True),
\* every match, anywhere in the name.
remove_hydroxylations(name) == remove_matches(";[0-9]+OH", name)

\* The replacement anchored at the start: Series.str.replace("^[OP]-", "").
remove_fa_bond_alterations_anchored(name) ==
    IF BondAlterationMatchLen(name) > 0 THEN StrFrom(name, 3) ELSE name

\* _remove_fa_bond_alterations: Series.str.replace("[OP]-", "", regex=True),
\* every match, anywhere in the name.
remove_fa_bond_alterations(name) == remove_matches("[OP]-", name)

(***************************************************************************)
(* Labels and column names of parsing.py.                                  *)
(***************************************************************************)
success_label == "success"

failure_label == "failed"

missing == "MISSING"

not_applicable == "N/A"

UNDEFINED == "UNDEFINED"

\* The classification columns of a ParsedDataset, in the order of the
\* notation levels (coarse to fine).
ClassificationColumns ==
    << "CATEGORY", "CLASS", "SPECIES", "MOLECULAR_SPECIES", "SN_POSITION",
       "STRUCTURE_DEFINED", "FULL_STRUCTURE", "COMPLETE_STRUCTURE" >>

\* The same names in the order in which DataFrame.groupby sorts its keys.
SortedLevels ==
    << "CATEGORY", "CLASS", "COMPLETE_STRUCTURE", "FULL_STRUCTURE",
       "MOLECULAR_SPECIES", "SN_POSITION", "SPECIES", "STRUCTURE_DEFINED" >>

LevelValue(level) ==
    CHOOSE k \in 1..Len(ClassificationColumns) : ClassificationColumns[k] = level

\* _get_level_dict: the name at every level up to the lipid's level,
\* "UNDEFINED" above it.  names[k] is the lipid string at level k.
get_level_dict(level, names) ==
    [ lv \in Range(ClassificationColumns) |->
        IF LevelValue(lv) <= LevelValue(level) THEN names[LevelValue(lv)]
        ELSE UNDEFINED ]

\* _get_success_info: the row of a successfully parsed name.
get_success_info(original_name, level, names, fas, lcb) ==
    [ original_name  |-> original_name,
      parsed_name    |-> names[LevelValue(level)],
      status         |-> success_label,
      level          |-> level,
      classification |-> get_level_dict(level, names),
      fas            |-> fas,
      lcb            |-> lcb ]

\* _get_failure_info and _format_info_dict: every feature that the
\* failure info lacks is the empty string.
get_failure_info(original_name) ==
    [ original_name  |-> original_name,
      parsed_name    |-> "",
      status         |-> failure_label,
      level          |-> "",
      classification |-> [lv \in Range(ClassificationColumns) |-> ""],
      fas            |-> <<"", "", "", "">>,
      lcb            |-> "" ]

(***************************************************************************)
(* Input pools.  A run matches a to-match dataset of up to MaxToMatch rows *)
(* against a reference dataset of up to MaxMatchTo rows drawn from these.  *)
(***************************************************************************)
NA3 == <<not_applicable, not_applicable, not_applicable>>

ToMatchPool ==
    << \* 1: species-level glycerophospholipid (scenario 1)
       get_success_info("PC 34:1", "SPECIES", <<"GP", "PC", "PC 34:1">>,
                        <<missing, missing, not_applicable, not_applicable>>,
                        not_applicable),
       \* 2: species-level hexosylceramide, the class of the default synonyms
       get_success_info("HexCer 34:1;2", "SPECIES",
                        <<"SP", "HexCer", "HexCer 34:1;2">>,
                        <<missing>> \o NA3, missing),
       \* 3: a name the parser rejects (scenario 4)
       get_failure_info("Weird Lipid X"),
       \* 4: a missing name
       get_failure_info(""),
       \* 5: a parsed row whose parsed name is the UNDEFINED sentinel
       get_success_info("Odd lipid", "SPECIES",
                        <<UNDEFINED, UNDEFINED, UNDEFINED>>,
                        <<not_applicable>> \o NA3, not_applicable),
       \* 6: species-level glucosylceramide (scenario 3)
       get_success_info("GlcCer 34:1;2", "SPECIES",
                        <<"SP", "GlcCer", "GlcCer 34:1;2">>,
                        <<missing>> \o NA3, missing),
       \* 7: the name of row 3 once more (a repeated original name)
       get_failure_info("Weird Lipid X") >>

MatchToPool ==
    << \* 1: PC 16:0_18:1 (scenario 1)
       get_success_info("PC(16:0_18:1)", "MOLECULAR_SPECIES",
                        <<"GP", "PC", "PC 34:1", "PC 16:0_18:1">>,
                        <<"16:0", "18:1", not_applicable, not_applicable>>,
                        not_applicable),
       \* 2: same species, bond alteration and hydroxylation on the chains
       get_success_info("PC(O-18:1;2OH_P-16:0)", "MOLECULAR_SPECIES",
                        <<"GP", "PC", "PC 34:1", "PC O-18:1;2OH_P-16:0">>,
                        <<"O-18:1;2OH", "P-16:0", not_applicable, not_applicable>>,
                        not_applicable),
       \* 3: species-level glucosylceramide, no component information
       get_success_info("GlcCer 34:1;2", "SPECIES",
                        <<"SP", "GlcCer", "GlcCer 34:1;2">>,
                        <<missing>> \o NA3, missing),
       \* 4: galactosylceramide with known long-chain base
       get_success_info("GalCer(d18:1/16:0)", "SN_POSITION",
                        <<"SP", "GalCer", "GalCer 34:1;2", "GalCer 18:1;2_16:0",
                          "GalCer 18:1;2/16:0">>,
                        <<"16:0">> \o NA3, "18:1;2"),
       \* 5: unparsed reference row (scenario 4)
       get_failure_info("Weird Lipid X"),
       \* 6: unparsed reference row without a name
       get_failure_info(""),
       \* 7: class-level lysophospholipid (its species is UNDEFINED) with
       \*    modifiers inside the first descriptor and an empty second chain
       get_success_info("LPC", "CLASS", <<"GP", "LPC">>,
                        <<"18:0;2OH;O-Me", "0:0", not_applicable, not_applicable>>,
                        not_applicable),
       \* 8: the name of row 5 once more (a repeated original name)
       get_failure_info("Weird Lipid X") >>

\* Constraint lists as ConstraintsDataset holds them.
ConstraintsPool ==
    << [fa_constraints |-> {"16:0", "18:1"}, lcb_constraints |-> {"18:1;2"}],
       [fa_constraints |-> {"16:0"}, lcb_constraints |-> {"18:0;2"}],
       [fa_constraints |-> {"16:0", "MISSING"}, lcb_constraints |-> {"MISSING"}] >>

\* Constructor arguments with an empty FA series or an empty LCB series.
EmptyConstraintsPool ==
    << [fa_constraints |-> {}, lcb_constraints |-> {"18:1;2"}],
       [fa_constraints |-> {"16:0"}, lcb_constraints |-> {}] >>

\* Caller-supplied class synonyms: a dict is a sequence of (key, list)
\* items in insertion order; None is the empty sequence of no mapping.
SynonymsPool ==
    << [is_none |-> TRUE, items |-> <<>>],
       [is_none |-> FALSE,
        items |-> << [key |-> "HexCer", synonyms |-> <<"GalCer">>] >>],
       [is_none |-> FALSE,
        items |-> << [key |-> "GlcCer", synonyms |-> <<"GalCer", "HexCer">>] >>] >>

_DEFAULT_SYNONYMS ==
    << [key |-> "HexCer", synonyms |-> <<"GlcCer", "GalCer">>] >>

\* The (constraints, class_synonyms) arguments of the calls explored: both
\* constraint sets with the default synonyms, the first one with each
\* caller-supplied table.
CallArguments ==
    { <<ConstraintsPool[k], SynonymsPool[s]>> :
        k \in {1}, s \in 1..Len(SynonymsPool) }
    \cup { <<ConstraintsPool[k], SynonymsPool[1]>> : k \in 1..Len(ConstraintsPool) }
    \cup { <<EmptyConstraintsPool[k], SynonymsPool[1]>> :
              k \in 1..Len(EmptyConstraintsPool) }

\* Increasing sequences of pool positions of length 1..max: a dataset is
\* a selection of pool rows in pool order.
PoolChoices(n, max) ==
    { c \in UNION { [1..k -> 1..n] : k \in 1..max } :
        \A i \in 1..(Len(c) - 1) : c[i] < c[i + 1] }

DatasetOf(pool, choice) == List([i \in 1..Len(choice) |-> pool[choice[i]]])

\* The frame of a parsed lipidome: every column of the parser's output.
FullFrame(rows) ==
    [ index_name |-> "INDEX",
      columns |-> { "ORIGINAL_NAME", "PARSED_NAME", "STATUS", "MESSAGE",
                    "LEVEL", "CATEGORY", "CLASS", "SPECIES",
                    "MOLECULAR_SPECIES", "SN_POSITION", "STRUCTURE_DEFINED",
                    "FULL_STRUCTURE", "COMPLETE_STRUCTURE",
                    "FA1", "FA2", "FA3", "FA4", "LCB" },
      rows |-> rows ]

\* Frames that lack one required column, and a frame whose index has
\* another name.
DefectiveFrames ==
    LET full == FullFrame(DatasetOf(ToMatchPool, <<1>>))
    IN  { [full EXCEPT !.columns = @ \ {c}] : c \in full.columns }
        \cup { [full EXCEPT !.index_name = "None"] }

(***************************************************************************)
(* ParsedDataset (parsing.py).                                             *)
(***************************************************************************)
\* ParsedDataset.__init__: the index labels of the success rows.
success_index(ds) ==
    { i \in 1..Len(ds) :
        ds[i].status /= failure_label /\ ds[i].parsed_name /= UNDEFINED }

\* ParsedDataset.__init__: the index labels of the failure rows.
failure_index(ds) ==
    { i \in 1..Len(ds) :
        ds[i].status = failure_label \/ ds[i].parsed_name = UNDEFINED }

\* ParsedDataset.name_df: one row of the two name columns.
name_row(ds, i) ==
    [ parsed_name |-> ds[i].parsed_name, original_name |-> ds[i].original_name ]

(***************************************************************************)
(* The matchers (matching.py).  A MatchIndexPairs frame is a sequence of   *)
(* rows [t |-> TO_MATCH_INDEX, m |-> MATCH_TO_INDEX].                      *)
(***************************************************************************)
\* One group of _match_by_parsed_name joined on the reference value at
\* any level instead of the level of the group.
level_group_pairs_any_level(to_match_ds, match_to_ds, level) ==
    LET group == SelectSeq(Indices(Len(to_match_ds)),
                           LAMBDA i : to_match_ds[i].level = level)
        partners(i) ==
            SelectSeq(Indices(Len(match_to_ds)),
                      LAMBDA j : \E lv \in Range(ClassificationColumns) :
                                     match_to_ds[j].classification[lv]
                                         = to_match_ds[i].parsed_name)
        rows(i) == Map(LAMBDA j : [t |-> i, m |-> j], partners(i))
    IN  Flatten(Map(rows, group))

\* One group of _match_by_parsed_name: the left merge of the to-match rows
\* of one level with the reference classification column of that level,
\* the rows without a partner dropped.
level_group_pairs(to_match_ds, match_to_ds, level) ==
    LET group == SelectSeq(Indices(Len(to_match_ds)),
                           LAMBDA i : to_match_ds[i].level = level)
        partners(i) ==
            SelectSeq(Indices(Len(match_to_ds)),
                      LAMBDA j : match_to_ds[j].classification[level]
                                     = to_match_ds[i].parsed_name)
        rows(i) == Map(LAMBDA j : [t |-> i, m |-> j], partners(i))
    IN  Flatten(Map(rows, group))

\* _match_by_parsed_name: groupby over the LEVEL column of every to-match
\* row, the groups in sorted key order, only the levels that are
\* classification columns of the reference dataset.
match_by_parsed_name(to_match_ds, match_to_ds) ==
    LET levels == SelectSeq(SortedLevels,
                            LAMBDA lv : \E i \in 1..Len(to_match_ds) :
                                           to_match_ds[i].level = lv)
    IN  Flatten(Map(LAMBDA lv : level_group_pairs(to_match_ds, match_to_ds, lv),
                    levels))

\* dict | dict: the keys of the left operand keep their position, a key of
\* both takes the value of the right operand, new keys are appended.
\* dict union in which the left operand wins on a key collision.
dict_union_left_wins(left, right) ==
    LET has(d, k) == \E n \in 1..Len(d) : d[n].key = k
    IN  left \o SelectSeq(right, LAMBDA item : ~has(left, item.key))

dict_union(left, right) ==
    LET has(d, k) == \E n \in 1..Len(d) : d[n].key = k
        get(d, k) == d[CHOOSE n \in 1..Len(d) : d[n].key = k]
    IN  Map(LAMBDA item : IF has(right, item.key) THEN get(right, item.key)
                          ELSE item, left)
        \o SelectSeq(right, LAMBDA item : ~has(left, item.key))

\* _proc_class_synonyms
proc_class_synonyms(class_synonyms) ==
    dict_union(_DEFAULT_SYNONYMS,
               IF class_synonyms.is_none THEN <<>> ELSE class_synonyms.items)

\* _chk_class_exists accepting every class.
chk_class_exists_always(to_match_ds, lipid_class) ==
    Len(to_match_ds) > 0

\* _chk_class_exists
chk_class_exists(to_match_ds, lipid_class) ==
    \E i \in 1..Len(to_match_ds) :
        startswith(to_match_ds[i].parsed_name, lipid_class)

\* _replace_class_with_synonym_and_match: the derived dataset differs
\* from the to-match dataset in the parsed names only.
replace_class_with_synonym_and_match(to_match_ds, match_to_ds, lipid_class, synonym) ==
    LET renamed_ds ==
            List([ i \in 1..Len(to_match_ds) |->
                     [ to_match_ds[i] EXCEPT
                         !.parsed_name = str_replace(@, lipid_class, synonym) ] ])
    IN  match_by_parsed_name(renamed_ds, match_to_ds)

\* _match_by_parsed_name_with_synonyms trying the first synonym of every
\* class only.
match_by_parsed_name_with_synonyms_first_synonym(to_match_ds, match_to_ds, class_synonyms) ==
    LET existing == SelectSeq(class_synonyms,
                              LAMBDA item : chk_class_exists(to_match_ds, item.key))
        per_class(item) ==
            Flatten(Map(LAMBDA synonym :
                            replace_class_with_synonym_and_match(
                                to_match_ds, match_to_ds, item.key, synonym),
                        SubSeq(item.synonyms, 1, 1)))
    IN  drop_duplicates(Flatten(Map(per_class, existing)))

\* _match_by_parsed_name_with_synonyms applying every rule, without the
\* _chk_class_exists test.
match_by_parsed_name_with_synonyms_unchecked(to_match_ds, match_to_ds, class_synonyms) ==
    LET per_class(item) ==
            Flatten(Map(LAMBDA synonym :
                            replace_class_with_synonym_and_match(
                                to_match_ds, match_to_ds, item.key, synonym),
                        item.synonyms))
    IN  drop_duplicates(Flatten(Map(per_class, class_synonyms)))

\* _match_by_parsed_name_with_synonyms
match_by_parsed_name_with_synonyms(to_match_ds, match_to_ds, class_synonyms) ==
    LET existing == SelectSeq(class_synonyms,
                              LAMBDA item : chk_class_exists(to_match_ds, item.key))
        per_class(item) ==
            Flatten(Map(LAMBDA synonym :
                            replace_class_with_synonym_and_match(
                                to_match_ds, match_to_ds, item.key, synonym),
                        item.synonyms))
    IN  drop_duplicates(Flatten(Map(per_class, existing)))

\* The merge without validate="one_to_many": nothing is tested.
original_names_unchecked(to_match_ds) ==
    Len(to_match_ds) >= 0

\* merge(validate="one_to_many"): the merge keys of the left frame must
\* be unique.
original_names_unique(to_match_ds) ==
    \A i, j \in 1..Len(to_match_ds) :
        to_match_ds[i].original_name = to_match_ds[j].original_name => i = j

\* _match_by_original_name over the success rows of the to-match dataset
\* only.
match_by_original_name_success_only(to_match_ds, match_to_ds) ==
    LET partners(i) ==
            SelectSeq(Indices(Len(match_to_ds)),
                      LAMBDA j : match_to_ds[j].original_name
                                     = to_match_ds[i].original_name)
        rows(i) == Map(LAMBDA j : [t |-> i, m |-> j], partners(i))
    IN  Flatten(Map(rows, SelectSeq(Indices(Len(to_match_ds)),
                                    LAMBDA i : i \in success_index(to_match_ds))))

\* _match_by_original_name: left merge on equal original names, the rows
\* without a partner dropped.
match_by_original_name(to_match_ds, match_to_ds) ==
    LET partners(i) ==
            SelectSeq(Indices(Len(match_to_ds)),
                      LAMBDA j : match_to_ds[j].original_name
                                     = to_match_ds[i].original_name)
        rows(i) == Map(LAMBDA j : [t |-> i, m |-> j], partners(i))
    IN  Flatten(Map(rows, Indices(Len(to_match_ds))))

\* _combine_case_matches: the non-empty frames concatenated, duplicate
\* rows dropped.  pandas.concat raises when it is given no frame.
combine_has_frames(frames) == \E k \in 1..Len(frames) : frames[k] /= <<>>

\* _combine_case_matches that does not wait for the third matcher.
combine_case_matches_first_two(frames) ==
    drop_duplicates(Flatten(SelectSeq(SubSeq(frames, 1, 2), LAMBDA f : f /= <<>>)))

combine_case_matches(frames) ==
    drop_duplicates(Flatten(SelectSeq(frames, LAMBDA f : f /= <<>>)))

(***************************************************************************)
(* Compilation of the unfiltered results (matching.py).                    *)
(***************************************************************************)
\* _gen_matches_info: the pairs with the names of both sides, looked up by
\* index label (two left merges; row order and row count are kept because
\* the index labels of a dataset are unique).
gen_matches_info(match_index_pairs, to_match_ds, match_to_ds) ==
    Map(LAMBDA p :
            [ t |-> p.t, m |-> p.m,
              to_match_parsed_name   |-> to_match_ds[p.t].parsed_name,
              to_match_original_name |-> to_match_ds[p.t].original_name,
              match_to_parsed_name   |-> match_to_ds[p.m].parsed_name,
              match_to_original_name |-> match_to_ds[p.m].original_name ],
        match_index_pairs)

to_match_index(match_index_pairs) ==
    {match_index_pairs[k].t : k \in 1..Len(match_index_pairs)}

\* _get_parsed_no_match_lipids without the test against the pairs.
get_parsed_no_match_lipids_ignoring_pairs(match_index_pairs, to_match_ds) ==
    Map(LAMBDA i : name_row(to_match_ds, i),
        SelectSeq(Indices(Len(to_match_ds)),
                  LAMBDA i : to_match_ds[i].parsed_name /= ""))

\* _get_parsed_no_match_lipids: the name rows with a non-empty parsed name
\* whose index label is in no pair (the index is dropped from the result).
get_parsed_no_match_lipids(match_index_pairs, to_match_ds) ==
    Map(LAMBDA i : name_row(to_match_ds, i),
        SelectSeq(Indices(Len(to_match_ds)),
                  LAMBDA i : /\ to_match_ds[i].parsed_name /= ""
                             /\ i \notin to_match_index(match_index_pairs)))

\* _get_original_name_no_match_lipids without the test of the pairs.
get_original_name_no_match_lipids_ignoring_pairs(match_index_pairs, to_match_ds) ==
    Map(LAMBDA i : name_row(to_match_ds, i),
        SelectSeq(Indices(Len(to_match_ds)),
                  LAMBDA i : to_match_ds[i].parsed_name = ""))

\* _get_original_name_no_match_lipids: the name rows with an empty parsed
\* name whose index label is in no pair.
get_original_name_no_match_lipids(match_index_pairs, to_match_ds) ==
    Map(LAMBDA i : name_row(to_match_ds, i),
        SelectSeq(Indices(Len(to_match_ds)),
                  LAMBDA i : /\ to_match_ds[i].parsed_name = ""
                             /\ i \notin to_match_index(match_index_pairs)))

\* _compile_unfiltered_matching_results
compile_unfiltered_matching_results(match_index_pairs, to_match_ds, match_to_ds) ==
    [ matches_info |-> gen_matches_info(match_index_pairs, to_match_ds, match_to_ds),
      parsed_no_match |-> get_parsed_no_match_lipids(match_index_pairs, to_match_ds),
      original_name_no_match |->
          get_original_name_no_match_lipids(match_index_pairs, to_match_ds) ]

(***************************************************************************)
(* Constraint filtering (matching.py).  Every frame of this part has one   *)
(* row per pair, labelled with the pair's MATCH_TO_INDEX.                  *)
(***************************************************************************)
FaSlots == 1..4

\* _mark_fa_constraint_violations, lines 864-866: the processed descriptor.
process_fa(fa) == remove_hydroxylations(remove_fa_bond_alterations(fa))

\* _mark_fa_constraint_violations with "MISSING" exempt like "N/A".
mark_fa_constraint_violations_missing_exempt(fa, fa_constraints) ==
    LET processed_fa == process_fa(fa)
    IN  \/ processed_fa = ""
        \/ processed_fa = "N/A"
        \/ processed_fa = "MISSING"
        \/ processed_fa = "0:0"
        \/ processed_fa \in fa_constraints

\* _mark_fa_constraint_violations without the zero-chain exemption.
mark_fa_constraint_violations_no_zero(fa, fa_constraints) ==
    LET processed_fa == process_fa(fa)
    IN  \/ processed_fa = ""
        \/ processed_fa = "N/A"
        \/ processed_fa \in fa_constraints

\* _mark_fa_constraint_violations: TRUE where the descriptor is allowed.
mark_fa_constraint_violations(fa, fa_constraints) ==
    LET processed_fa == process_fa(fa)
    IN  \/ processed_fa = ""
        \/ processed_fa = "N/A"
        \/ processed_fa = "0:0"
        \/ processed_fa \in fa_constraints

\* _get_fa_constraint_masks: one mask row per pair over the four FA
\* columns of the reference row.
get_fa_constraint_masks(match_index_pairs, match_to_ds, fa_constraints) ==
    Map(LAMBDA p :
            List([ k \in FaSlots |->
                     mark_fa_constraint_violations(match_to_ds[p.m].fas[k],
                                                   fa_constraints) ]),
        match_index_pairs)

\* _get_lcb_constraint_filter
get_lcb_constraint_filter(match_index_pairs, match_to_ds, lcb_constraints) ==
    Map(LAMBDA p :
            LET lcb == match_to_ds[p.m].lcb
            IN  lcb = "" \/ lcb = "N/A" \/ lcb \in lcb_constraints,
        match_index_pairs)

\* _filter_matches with the FA filter alone as the component filter.
get_component_filter_fa_only(match_index_pairs, fa_constraint_masks, lcb_constraint_filter) ==
    List([ k \in 1..Len(match_index_pairs) |->
             [ index  |-> match_index_pairs[k].m,
               passed |-> \A slot \in FaSlots : fa_constraint_masks[k][slot] ] ])

\* _filter_matches, lines 605-613: the pass flag of every pair row, with
\* its MATCH_TO_INDEX label.
get_component_filter(match_index_pairs, fa_constraint_masks, lcb_constraint_filter) ==
    List([ k \in 1..Len(match_index_pairs) |->
             [ index  |-> match_index_pairs[k].m,
               passed |-> /\ \A slot \in FaSlots : fa_constraint_masks[k][slot]
                          /\ lcb_constraint_filter[k] ] ])

\* _get_constrained_matches_info selecting the rows that fail.
get_constrained_matches_info_inverted(matches_info, component_filter) ==
    IF matches_info = <<>> THEN matches_info
    ELSE Map(LAMBDA k : matches_info[k],
             SelectSeq(Indices(Len(matches_info)),
                       LAMBDA k : ~component_filter[k].passed))

\* _get_constrained_matches_info: the rows of matches_info at the
\* positions where the filter holds.
get_constrained_matches_info(matches_info, component_filter) ==
    IF matches_info = <<>> THEN matches_info
    ELSE Map(LAMBDA k : matches_info[k],
             SelectSeq(Indices(Len(matches_info)),
                       LAMBDA k : component_filter[k].passed))

\* _get_fa_violations taking the processed descriptors.
get_fa_violations_processed(match_index_pairs, match_to_ds, fa_constraint_masks) ==
    LET row(k) ==
            [ index |-> match_index_pairs[k].m,
              fas   |-> List([ slot \in FaSlots |->
                            IF fa_constraint_masks[k][slot] THEN NaN
                            ELSE process_fa(
                                     match_to_ds[match_index_pairs[k].m].fas[slot]) ]) ]
    IN  Map(row, SelectSeq(Indices(Len(match_index_pairs)),
                           LAMBDA k : \E slot \in FaSlots :
                                         ~fa_constraint_masks[k][slot]))

\* _get_fa_violations: the reference FA values as stored, NaN where the
\* mask holds; rows that are NaN in all four columns are dropped.
get_fa_violations(match_index_pairs, match_to_ds, fa_constraint_masks) ==
    LET row(k) ==
            [ index |-> match_index_pairs[k].m,
              fas   |-> List([ slot \in FaSlots |->
                            IF fa_constraint_masks[k][slot] THEN NaN
                            ELSE match_to_ds[match_index_pairs[k].m].fas[slot] ]) ]
    IN  Map(row, SelectSeq(Indices(Len(match_index_pairs)),
                           LAMBDA k : \E slot \in FaSlots :
                                         ~fa_constraint_masks[k][slot]))

\* _get_lcb_violations: the reference LCB values of the rows that fail.
get_lcb_violations(match_index_pairs, match_to_ds, lcb_constraint_filter) ==
    Map(LAMBDA k : [ index |-> match_index_pairs[k].m,
                     lcb   |-> match_to_ds[match_index_pairs[k].m].lcb ],
        SelectSeq(Indices(Len(match_index_pairs)),
                  LAMBDA k : ~lcb_constraint_filter[k]))

\* DataFrame.merge(how="left", left_on=MATCH_TO_INDEX, right_index=True):
\* the right rows with the label, or one all-NaN row when there is none.
right_rows(right, label, nan_row) ==
    LET found == SelectSeq(right, LAMBDA r : r.index = label)
    IN  IF found = <<>> THEN <<nan_row>> ELSE found

\* _get_filtered_lipids, lines 681-706: the four left merges.
index_component_filter_df(match_index_pairs, to_match_ds, component_filter, fa_violations, lcb_violations) ==
    LET nan_fas == List([slot \in FaSlots |-> NaN])
        with_lcb(p, c, f) ==
            Map(LAMBDA l :
                    [ t |-> p.t, m |-> p.m, passed |-> c.passed,
                      parsed_name   |-> to_match_ds[p.t].parsed_name,
                      original_name |-> to_match_ds[p.t].original_name,
                      fas |-> f.fas, lcb |-> l.lcb ],
                right_rows(lcb_violations, p.m, [index |-> p.m, lcb |-> NaN]))
        with_fas(p, c) ==
            Flatten(Map(LAMBDA f : with_lcb(p, c, f),
                        right_rows(fa_violations, p.m,
                                   [index |-> p.m, fas |-> nan_fas])))
        with_passed(p) ==
            Flatten(Map(LAMBDA c : with_fas(p, c),
                        right_rows(component_filter, p.m,
                                   [index |-> p.m, passed |-> FALSE])))
    IN  Flatten(Map(with_passed, match_index_pairs))

\* _proc_filter_group taking the violations of the group's first row only.
proc_filter_group_first_row(group) ==
    IF \E k \in 1..Len(group) : group[k].passed THEN <<>>
    ELSE << [ parsed_name    |-> group[1].parsed_name,
              original_name  |-> group[1].original_name,
              FA_VIOLATIONS  |-> unique_dropna(group[1].fas),
              LCB_VIOLATIONS |-> unique_dropna(<<group[1].lcb>>) ] >>

\* _proc_filter_group with all() in place of any().
proc_filter_group_all(group) ==
    IF \A k \in 1..Len(group) : group[k].passed THEN <<>>
    ELSE << [ parsed_name    |-> group[1].parsed_name,
              original_name  |-> group[1].original_name,
              FA_VIOLATIONS  |->
                  unique_dropna(Flatten(Map(LAMBDA r : r.fas, group))),
              LCB_VIOLATIONS |->
                  unique_dropna(Map(LAMBDA r : r.lcb, group)) ] >>

\* _proc_filter_group: no row for a group with a passing member, else one
\* row with the names of the group's first row and the distinct non-NaN
\* violation values of the whole group.
proc_filter_group(group) ==
    IF \E k \in 1..Len(group) : group[k].passed THEN <<>>
    ELSE << [ parsed_name    |-> group[1].parsed_name,
              original_name  |-> group[1].original_name,
              FA_VIOLATIONS  |->
                  unique_dropna(Flatten(Map(LAMBDA r : r.fas, group))),
              LCB_VIOLATIONS |->
                  unique_dropna(Map(LAMBDA r : r.lcb, group)) ] >>

\* _get_filtered_lipids: groupby over TO_MATCH_INDEX in sorted key order,
\* the rows of the groups concatenated (the group key is dropped).
get_filtered_lipids(match_index_pairs, to_match_ds, component_filter, fa_violations, lcb_violations) ==
    IF match_index_pairs = <<>> THEN <<>>
    ELSE LET merged == index_component_filter_df(
                           match_index_pairs, to_match_ds, component_filter,
                           fa_violations, lcb_violations)
             keys == SelectSeq(Indices(Len(to_match_ds)),
                               LAMBDA i : \E k \in 1..Len(merged) : merged[k].t = i)
             group(i) == SelectSeq(merged, LAMBDA r : r.t = i)
         IN  Flatten(Map(LAMBDA i : proc_filter_group(group(i)), keys))

(***************************************************************************)
(* MatchingSummary: the statistics and the failures frame.                 *)
(***************************************************************************)
\* MatchingSummary._set_statistics up to the division, lines 60-91
count_statistics(matching_dataset, matching_results) ==
    [ num_lipids |-> Len(matching_dataset),
      num_parsing_failures |-> Cardinality(failure_index(matching_dataset)),
      num_parsed_no_match_lipids |-> Len(matching_results.parsed_no_match),
      num_original_name_no_match_lipids |->
          Len(matching_results.original_name_no_match),
      num_filtered_lipids |-> Len(matching_results.filtered_lipids),
      num_failures |->
          Len(matching_results.parsed_no_match)
              + Len(matching_results.original_name_no_match)
              + Len(matching_results.filtered_lipids) ]

\* MatchingSummary._compile_failures: the non-empty groups, concatenated.
compile_failures(matching_results) ==
    Map(LAMBDA r : [ original_name |-> r.original_name,
                     parsed_name |-> r.parsed_name,
                     REASON |-> "Parsed but no matches.",
                     FA_VIOLATIONS |-> NaN, LCB_VIOLATIONS |-> NaN ],
        matching_results.parsed_no_match)
    \o Map(LAMBDA r : [ original_name |-> r.original_name,
                        parsed_name |-> NaN,
                        REASON |-> "Parsing failed and no original name matches.",
                        FA_VIOLATIONS |-> NaN, LCB_VIOLATIONS |-> NaN ],
           matching_results.original_name_no_match)
    \o Map(LAMBDA r : [ original_name |-> r.original_name,
                        parsed_name |-> r.parsed_name,
                        REASON |-> NaN,
                        FA_VIOLATIONS |-> r.FA_VIOLATIONS,
                        LCB_VIOLATIONS |-> r.LCB_VIOLATIONS ],
           matching_results.filtered_lipids)

\* MatchingSummary._set_statistics counting the summand num_failures over
\* the parsing failures instead of the three no-match groups.
set_statistics_parsing_failures(matching_dataset, matching_results) ==
    LET counts == count_statistics(matching_dataset, matching_results)
    IN  [ counts EXCEPT !.num_failures =
              counts.num_parsing_failures + counts.num_parsed_no_match_lipids
                  + counts.num_original_name_no_match_lipids
                  + counts.num_filtered_lipids ]

\* MatchingSummary._set_statistics: the counts; failure_proportion is the
\* quotient num_failures / num_lipids, kept as the pair of its terms.
set_statistics(matching_dataset, matching_results) ==
    count_statistics(matching_dataset, matching_results)

\* MatchingSummary.__post_init__ for a dataset with at least one row.
build_matching_summary(matching_dataset, matching_results) ==
    LET statistics == set_statistics(matching_dataset, matching_results)
    IN  [ matching_dataset |-> matching_dataset,
          summary_dict |-> statistics,
          failure_proportion |->
              <<statistics.num_failures, statistics.num_lipids>>,
          failures |-> compile_failures(matching_results) ]

(***************************************************************************)
(* ParsedDataset._validate_df: the exception raised, or "ok".  A frame is  *)
(* its index name, the names of its columns and its rows.                  *)
(***************************************************************************)
\* ParsedDSColNames().col_names_list
col_names_list ==
    { "ORIGINAL_NAME", "PARSED_NAME", "STATUS", "MESSAGE", "LEVEL",
      "CATEGORY", "CLASS", "SPECIES", "MOLECULAR_SPECIES", "SN_POSITION",
      "STRUCTURE_DEFINED", "FULL_STRUCTURE", "COMPLETE_STRUCTURE",
      "FA1", "FA2", "FA3", "FA4", "LCB", "INDEX" }

\* _determine_missing_column_names: reset_index() turns the index into a
\* column of its name.
determine_missing_column_names(df) ==
    col_names_list \ (df.columns \cup {df.index_name})

\* ParsedDataset._validate_df testing the index name only.
validate_df_index_only(df) ==
    IF df.index_name /= "INDEX"
    THEN "ValueError: Index name"
    ELSE "ok"

validate_df(df) ==
    IF df.index_name /= "INDEX"
    THEN "ValueError: Index name"
    ELSE IF determine_missing_column_names(df) /= {}
         THEN "ValueError: Missing columns in dataset"
         ELSE "ok"

(***************************************************************************)
(* ConstraintsDataset._chk_input: the exception raised, or "ok".           *)
(***************************************************************************)
\* ConstraintsDataset._chk_input testing the FA series only.
chk_input_fa_only(fa_constraints, lcb_constraints) ==
    IF Cardinality(fa_constraints) = 0
    THEN "ValueError: FA constraints series empty."
    ELSE "ok"

chk_input(fa_constraints, lcb_constraints) ==
    IF Cardinality(fa_constraints) = 0
    THEN "ValueError: FA constraints series empty."
    ELSE IF Cardinality(lcb_constraints) = 0
         THEN "ValueError: LCB constraints series empty."
         ELSE "ok"

(***************************************************************************)
(* State: the arguments of perform_constrained_match, its local values,    *)
(* and the position of the call.                                           *)
(***************************************************************************)
VARIABLES
    constraints_input,               \* the series given to ConstraintsDataset
    to_match_df,                     \* the frame given to ParsedDataset
    to_match_ds,                     \* argument: ParsedDataset
    match_to_ds,                     \* argument: ParsedDataset
    constraints_ds,                  \* argument: ConstraintsDataset
    class_synonyms,                  \* argument: dict or None
    pc,                              \* the next step of the call
    generic_match_index_pairs,       \* _match_cases
    synonym_match_index_pairs,       \* _match_cases
    original_name_match_index_pairs, \* _match_cases
    match_index_pairs,               \* perform_constrained_match
    unfiltered_matching_results,     \* perform_constrained_match
    validation,                      \* the local frames of _filter_matches
    filtering_results,               \* perform_constrained_match
    matching_results,                \* the returned MatchingResults
    matching_summary,                \* the MatchingSummary object
    previous_run,                    \* the outcome of an earlier run
    raised                           \* the exception that ended the call

inputs == <<constraints_input, to_match_df, to_match_ds, match_to_ds, constraints_ds,
            class_synonyms>>

case_matches == <<generic_match_index_pairs, synonym_match_index_pairs,
                  original_name_match_index_pairs>>

vars == <<constraints_input, to_match_df, to_match_ds, match_to_ds, constraints_ds,
          class_synonyms, pc,
          generic_match_index_pairs, synonym_match_index_pairs,
          original_name_match_index_pairs, match_index_pairs,
          unfiltered_matching_results, validation, filtering_results,
          matching_results, matching_summary, previous_run, raised>>

after_call == <<matching_summary, previous_run>>

\* No ParsedDataset object of the lipidome exists yet.
NoDataset == <<>>

\* No ConstraintsDataset object exists yet.
NoConstraints == [fa_constraints |-> {}, lcb_constraints |-> {}]

NoUnfiltered ==
    [matches_info |-> <<>>, parsed_no_match |-> <<>>, original_name_no_match |-> <<>>]

NoValidation ==
    [ processed_fas |-> <<>>, fa_constraint_masks |-> <<>>,
      lcb_constraint_filter |-> <<>>, component_filter |-> <<>>,
      fa_violations |-> <<>>, lcb_violations |-> <<>> ]

NoFiltering == [constrained_matches_info |-> <<>>, filtered_lipids |-> <<>>]

NoResults ==
    [ matches_info |-> <<>>, parsed_no_match |-> <<>>,
      original_name_no_match |-> <<>>, constrained_matches_info |-> <<>>,
      filtered_lipids |-> <<>> ]

NoSummary ==
    [ matching_dataset |-> <<>>, summary_dict |-> <<>>,
      failure_proportion |-> <<>>, failures |-> <<>> ]

NoRun == [matching_results |-> NoResults, matching_summary |-> NoSummary, ran |-> FALSE]

\* The datasets a summary is built over: the matched lipidome, and a
\* ParsedDataset without rows.
SummaryDatasets == {to_match_ds, <<>>}

Init ==
    /\ \/ /\ \E c \in PoolChoices(Len(ToMatchPool), MaxToMatch) :
                 to_match_df = FullFrame(DatasetOf(ToMatchPool, c))
          /\ \E c \in PoolChoices(Len(MatchToPool), MaxMatchTo) :
                 match_to_ds = DatasetOf(MatchToPool, c)
          /\ \E a \in CallArguments :
                 /\ constraints_input = a[1]
                 /\ class_synonyms = a[2]
       \/ /\ to_match_df \in DefectiveFrames
          /\ match_to_ds = DatasetOf(MatchToPool, <<1>>)
          /\ constraints_input = ConstraintsPool[1]
          /\ class_synonyms = SynonymsPool[1]
    /\ to_match_ds = NoDataset
    /\ constraints_ds = NoConstraints
    /\ pc = "constraints_dataset_post_init"
    /\ generic_match_index_pairs = <<>>
    /\ synonym_match_index_pairs = <<>>
    /\ original_name_match_index_pairs = <<>>
    /\ match_index_pairs = <<>>
    /\ unfiltered_matching_results = NoUnfiltered
    /\ validation = NoValidation
    /\ filtering_results = NoFiltering
    /\ matching_results = NoResults
    /\ matching_summary = NoSummary
    /\ previous_run = NoRun
    /\ raised = "none"

(***************************************************************************)
(* The construction of the ConstraintsDataset, then the steps of           *)
(* perform_constrained_match.                                              *)
(***************************************************************************)
\* ConstraintsDataset.__post_init__, lines 168-169: the object exists once
\* _chk_input has returned.
ConstructConstraintsDataset ==
    /\ pc = "constraints_dataset_post_init"
    /\ chk_input(constraints_input.fa_constraints,
                 constraints_input.lcb_constraints) = "ok"
    /\ constraints_ds' = [ fa_constraints |-> constraints_input.fa_constraints,
                           lcb_constraints |-> constraints_input.lcb_constraints ]
    /\ pc' = "parsed_dataset_init"
    /\ UNCHANGED <<after_call, constraints_input, to_match_df, to_match_ds, match_to_ds,
                   class_synonyms,
                   case_matches, match_index_pairs, unfiltered_matching_results,
                   validation, filtering_results, matching_results, raised>>

\* ConstraintsDataset._chk_input raises: no object, no call.
ConstructConstraintsDatasetRaises ==
    /\ pc = "constraints_dataset_post_init"
    /\ chk_input(constraints_input.fa_constraints,
                 constraints_input.lcb_constraints) /= "ok"
    /\ raised' = chk_input(constraints_input.fa_constraints,
                           constraints_input.lcb_constraints)
    /\ pc' = "raised"
    /\ UNCHANGED <<after_call, inputs, case_matches, match_index_pairs,
                   unfiltered_matching_results, validation, filtering_results,
                   matching_results>>

\* _gen_matching_ds: ParsedDataset.__init__ keeps the frame once
\* _validate_df has returned.
ConstructParsedDataset ==
    /\ pc = "parsed_dataset_init"
    /\ validate_df(to_match_df) = "ok"
    /\ to_match_ds' = to_match_df.rows
    /\ pc' = "match_by_parsed_name"
    /\ UNCHANGED <<after_call, constraints_input, to_match_df, match_to_ds, constraints_ds,
                   class_synonyms, case_matches, match_index_pairs,
                   unfiltered_matching_results, validation, filtering_results,
                   matching_results, raised>>

\* ParsedDataset._validate_df raises: no object, no call.
ConstructParsedDatasetRaises ==
    /\ pc = "parsed_dataset_init"
    /\ validate_df(to_match_df) /= "ok"
    /\ raised' = validate_df(to_match_df)
    /\ pc' = "raised"
    /\ UNCHANGED <<after_call, inputs, case_matches, match_index_pairs,
                   unfiltered_matching_results, validation, filtering_results,
                   matching_results>>

\* _match_cases, lines 281-286
MatchByParsedName ==
    /\ pc = "match_by_parsed_name"
    /\ generic_match_index_pairs' = match_by_parsed_name(to_match_ds, match_to_ds)
    /\ pc' = "match_by_parsed_name_with_synonyms"
    /\ UNCHANGED <<after_call, inputs, synonym_match_index_pairs,
                   original_name_match_index_pairs, match_index_pairs,
                   unfiltered_matching_results, validation, filtering_results,
                   matching_results, raised>>

\* _match_cases, lines 288-298
\* _match_cases with _replace_class_with_synonym_and_match renaming the
\* to-match frame itself (no copy) for the last synonym tried.
MatchByParsedNameWithSynonymsInPlace ==
    /\ pc = "match_by_parsed_name_with_synonyms"
    /\ synonym_match_index_pairs' =
           match_by_parsed_name_with_synonyms(
               to_match_ds, match_to_ds, proc_class_synonyms(class_synonyms))
    /\ to_match_ds' =
           LET table == SelectSeq(proc_class_synonyms(class_synonyms),
                                  LAMBDA item : chk_class_exists(to_match_ds, item.key))
           IN  IF table = <<>> THEN to_match_ds
               ELSE LET item == table[Len(table)]
                    IN  List([ i \in 1..Len(to_match_ds) |->
                                 [ to_match_ds[i] EXCEPT
                                     !.parsed_name =
                                         str_replace(@, item.key,
                                                     item.synonyms[Len(item.synonyms)]) ] ])
    /\ pc' = "match_by_original_name"
    /\ UNCHANGED <<after_call, constraints_input, to_match_df, match_to_ds,
                   constraints_ds, class_synonyms, generic_match_index_pairs,
                   original_name_match_index_pairs, match_index_pairs,
                   unfiltered_matching_results, validation, filtering_results,
                   matching_results, raised>>

\* _match_cases with a default synonym table that the first call uses up:
\* a later call sees the caller's mapping only.
MatchByParsedNameWithSynonymsDefaultOnce ==
    /\ pc = "match_by_parsed_name_with_synonyms"
    /\ synonym_match_index_pairs' =
           match_by_parsed_name_with_synonyms(
               to_match_ds, match_to_ds,
               IF previous_run.ran
               THEN (IF class_synonyms.is_none THEN <<>> ELSE class_synonyms.items)
               ELSE proc_class_synonyms(class_synonyms))
    /\ pc' = "match_by_original_name"
    /\ UNCHANGED <<after_call, inputs, generic_match_index_pairs,
                   original_name_match_index_pairs, match_index_pairs,
                   unfiltered_matching_results, validation, filtering_results,
                   matching_results, raised>>

MatchByParsedNameWithSynonyms ==
    /\ pc = "match_by_parsed_name_with_synonyms"
    /\ synonym_match_index_pairs' =
           match_by_parsed_name_with_synonyms(
               to_match_ds, match_to_ds, proc_class_synonyms(class_synonyms))
    /\ pc' = "match_by_original_name"
    /\ UNCHANGED <<after_call, inputs, generic_match_index_pairs,
                   original_name_match_index_pairs, match_index_pairs,
                   unfiltered_matching_results, validation, filtering_results,
                   matching_results, raised>>

\* _match_cases, lines 300-305
MatchByOriginalName ==
    /\ pc = "match_by_original_name"
    /\ original_names_unique(to_match_ds)
    /\ original_name_match_index_pairs' =
           match_by_original_name(to_match_ds, match_to_ds)
    /\ pc' = "combine_case_matches"
    /\ UNCHANGED <<after_call, inputs, generic_match_index_pairs, synonym_match_index_pairs,
                   match_index_pairs, unfiltered_matching_results, validation,
                   filtering_results, matching_results, raised>>

\* _match_by_original_name, line 473: the merge validation fails.
MatchByOriginalNameRaises ==
    /\ pc = "match_by_original_name"
    /\ ~original_names_unique(to_match_ds)
    /\ raised' = "MergeError"
    /\ pc' = "raised"
    /\ UNCHANGED <<after_call, inputs, case_matches, match_index_pairs,
                   unfiltered_matching_results, validation, filtering_results,
                   matching_results>>

\* _match_cases, lines 307-313
CombineCaseMatches ==
    /\ pc = "combine_case_matches"
    /\ combine_has_frames(case_matches)
    /\ match_index_pairs' = combine_case_matches(case_matches)
    /\ pc' = "compile_unfiltered_matching_results"
    /\ UNCHANGED <<after_call, inputs, case_matches, unfiltered_matching_results,
                   validation, filtering_results, matching_results, raised>>

\* _combine_case_matches, lines 433-444: pandas.concat of no frame.
CombineCaseMatchesRaises ==
    /\ pc = "combine_case_matches"
    /\ ~combine_has_frames(case_matches)
    /\ raised' = "ValueError"
    /\ pc' = "raised"
    /\ UNCHANGED <<after_call, inputs, case_matches, match_index_pairs,
                   unfiltered_matching_results, validation, filtering_results,
                   matching_results>>

\* perform_constrained_match, lines 255-259
CompileUnfilteredMatchingResults ==
    /\ pc = "compile_unfiltered_matching_results"
    /\ unfiltered_matching_results' =
           compile_unfiltered_matching_results(
               match_index_pairs, to_match_ds, match_to_ds)
    /\ pc' = "filter_matches"
    /\ UNCHANGED <<after_call, inputs, case_matches, match_index_pairs, validation,
                   filtering_results, matching_results, raised>>

\* perform_constrained_match, lines 261-267: _filter_matches
FilterMatches ==
    /\ pc = "filter_matches"
    /\ LET fa_constraint_masks ==
               get_fa_constraint_masks(match_index_pairs, match_to_ds,
                                       constraints_ds.fa_constraints)
           lcb_constraint_filter ==
               get_lcb_constraint_filter(match_index_pairs, match_to_ds,
                                         constraints_ds.lcb_constraints)
           component_filter ==
               get_component_filter(match_index_pairs, fa_constraint_masks,
                                    lcb_constraint_filter)
           fa_violations ==
               get_fa_violations(match_index_pairs, match_to_ds,
                                 fa_constraint_masks)
           lcb_violations ==
               get_lcb_violations(match_index_pairs, match_to_ds,
                                  lcb_constraint_filter)
       IN  /\ validation' =
                  [ processed_fas |->
                        Map(LAMBDA p : List([ slot \in FaSlots |->
                                           process_fa(match_to_ds[p.m].fas[slot]) ]),
                            match_index_pairs),
                    fa_constraint_masks |-> fa_constraint_masks,
                    lcb_constraint_filter |-> lcb_constraint_filter,
                    component_filter |-> component_filter,
                    fa_violations |-> fa_violations,
                    lcb_violations |-> lcb_violations ]
           /\ filtering_results' =
                  [ constrained_matches_info |->
                        get_constrained_matches_info(
                            unfiltered_matching_results.matches_info,
                            validation'.component_filter),
                    filtered_lipids |->
                        get_filtered_lipids(match_index_pairs, to_match_ds,
                                            validation'.component_filter,
                                            validation'.fa_violations,
                                            validation'.lcb_violations) ]
    /\ pc' = "return"
    /\ UNCHANGED <<after_call, inputs, case_matches, match_index_pairs,
                   unfiltered_matching_results, matching_results, raised>>

\* perform_constrained_match, lines 269-271: MatchingResults.from_constituents
ReturnMatchingResults ==
    /\ pc = "return"
    /\ matching_results' =
           [ matches_info |-> unfiltered_matching_results.matches_info,
             parsed_no_match |-> unfiltered_matching_results.parsed_no_match,
             original_name_no_match |->
                 unfiltered_matching_results.original_name_no_match,
             constrained_matches_info |->
                 filtering_results.constrained_matches_info,
             filtered_lipids |-> filtering_results.filtered_lipids ]
    /\ pc' = "done"
    /\ UNCHANGED <<after_call, inputs, case_matches, match_index_pairs,
                   unfiltered_matching_results, validation, filtering_results,
                   raised>>

\* MatchingSummary.__post_init__ with a division that yields NaN for a
\* zero divisor (numpy integers) instead of raising.
BuildMatchingSummaryNaN ==
    /\ pc = "done"
    /\ \E matching_dataset \in SummaryDatasets :
           matching_summary' =
               build_matching_summary(matching_dataset, matching_results)
    /\ pc' = "summarised"
    /\ UNCHANGED <<inputs, case_matches, match_index_pairs,
                   unfiltered_matching_results, validation, filtering_results,
                   matching_results, previous_run, raised>>

\* MatchingSummary.__post_init__, lines 41-51
BuildMatchingSummary ==
    /\ pc = "done"
    /\ \E matching_dataset \in SummaryDatasets :
           /\ Len(matching_dataset) /= 0
           /\ matching_summary' =
                  build_matching_summary(matching_dataset, matching_results)
    /\ pc' = "summarised"
    /\ UNCHANGED <<inputs, case_matches, match_index_pairs,
                   unfiltered_matching_results, validation, filtering_results,
                   matching_results, previous_run, raised>>

\* MatchingSummary._set_statistics, line 93: int / int with a zero divisor.
BuildMatchingSummaryRaises ==
    /\ pc = "done"
    /\ \E matching_dataset \in SummaryDatasets : Len(matching_dataset) = 0
    /\ raised' = "ZeroDivisionError"
    /\ pc' = "raised"
    /\ UNCHANGED <<inputs, case_matches, match_index_pairs,
                   unfiltered_matching_results, validation, filtering_results,
                   matching_results, after_call>>

\* A second call of perform_constrained_match and MatchingSummary with the
\* same arguments: the locals of the call start afresh.
RunPipelineAgain ==
    /\ pc = "summarised"
    /\ ~previous_run.ran
    /\ previous_run' = [ matching_results |-> matching_results,
                         matching_summary |-> matching_summary,
                         ran |-> TRUE ]
    /\ generic_match_index_pairs' = <<>>
    /\ synonym_match_index_pairs' = <<>>
    /\ original_name_match_index_pairs' = <<>>
    /\ match_index_pairs' = <<>>
    /\ unfiltered_matching_results' = NoUnfiltered
    /\ validation' = NoValidation
    /\ filtering_results' = NoFiltering
    /\ matching_results' = NoResults
    /\ matching_summary' = NoSummary
    /\ pc' = "match_by_parsed_name"
    /\ UNCHANGED <<inputs, raised>>

Next ==
    \/ ConstructConstraintsDataset
    \/ ConstructConstraintsDatasetRaises
    \/ ConstructParsedDataset
    \/ ConstructParsedDatasetRaises
    \/ MatchByParsedName
    \/ MatchByParsedNameWithSynonyms
    \/ MatchByOriginalName
    \/ MatchByOriginalNameRaises
    \/ CombineCaseMatches
    \/ CombineCaseMatchesRaises
    \/ CompileUnfilteredMatchingResults
    \/ FilterMatches
    \/ ReturnMatchingResults
    \/ BuildMatchingSummary
    \/ BuildMatchingSummaryRaises

Spec == Init /\ [][Next]_vars

\* The pipeline run once or twice on the same inputs.
NextTwoRuns == Next \/ RunPipelineAgain

SpecTwoRuns == Init /\ [][NextTwoRuns]_vars

(***************************************************************************)
(* Vocabulary of the properties.                                           *)
(***************************************************************************)
Returned == pc = "done"

Validated == pc \in {"return", "done"}

ToMatchIds == 1..Len(to_match_ds)

PairRows == 1..Len(match_index_pairs)

\* The rows of the combined pairs whose TO_MATCH_INDEX is i.
CandidatesOf(i) == {k \in PairRows : match_index_pairs[k].t = i}

PairPassed(k) == validation.component_filter[k].passed

\* The result frames carry names, not index labels; a run that returns has
\* passed the one_to_many validation, so original names identify rows.
RowsNamed(frame, i) ==
    { k \in 1..Len(frame) :
        /\ frame[k].original_name = to_match_ds[i].original_name
        /\ frame[k].parsed_name = to_match_ds[i].parsed_name }

HasAcceptedMatch(i) ==
    \E k \in 1..Len(matching_results.constrained_matches_info) :
        matching_results.constrained_matches_info[k].t = i

InParsedNoMatch(i) == RowsNamed(matching_results.parsed_no_match, i) /= {}

InOriginalNameNoMatch(i) ==
    RowsNamed(matching_results.original_name_no_match, i) /= {}

FilteredEntriesOf(i) == RowsNamed(matching_results.filtered_lipids, i)

\* The reference descriptors of pair row k that fail their rule.
ViolatingFasOf(k) ==
    { match_to_ds[match_index_pairs[k].m].fas[slot] :
        slot \in {s \in FaSlots : ~validation.fa_constraint_masks[k][s]} }

ViolatingLcbsOf(k) ==
    IF validation.lcb_constraint_filter[k] THEN {}
    ELSE {match_to_ds[match_index_pairs[k].m].lcb}

NoDuplicates(seq) == \A a, b \in 1..Len(seq) : seq[a] = seq[b] => a = b

BoolToNat(b) == IF b THEN 1 ELSE 0

(***************************************************************************)
(* C1 - Completeness partition: in every returned result each to-match     *)
(* entry of the success subset is in exactly one of the three groups: it   *)
(* has an accepted match, it is listed in parsed_no_match, or it is        *)
(* represented by one filtered entry.                                      *)
(***************************************************************************)
C1_CompletenessPartition ==
    Returned =>
        \A i \in success_index(to_match_ds) :
            /\ BoolToNat(HasAcceptedMatch(i)) + BoolToNat(InParsedNoMatch(i))
                   + BoolToNat(FilteredEntriesOf(i) /= {}) = 1
            /\ Cardinality(FilteredEntriesOf(i)) <= 1
            /\ Cardinality(RowsNamed(matching_results.parsed_no_match, i)) <= 1

\* A returned run in which one parsed entry is filtered and another one is
\* accepted or unmatched.
C1_Witness ==
    /\ Returned
    /\ \E i, j \in success_index(to_match_ds) :
           /\ FilteredEntriesOf(i) /= {}
           /\ HasAcceptedMatch(j) \/ InParsedNoMatch(j)

(***************************************************************************)
(* C2 - Exoneration: a to-match entry with at least one candidate pair     *)
(* that passes validation has no filtered entry, whatever its other        *)
(* candidates do.                                                          *)
(***************************************************************************)
C2_Exoneration ==
    Returned =>
        \A i \in ToMatchIds :
            (\E k \in CandidatesOf(i) : PairPassed(k))
                => FilteredEntriesOf(i) = {}

\* A returned run in which an entry has a passing and a failing candidate.
C2_Witness ==
    /\ Returned
    /\ \E i \in ToMatchIds :
           /\ \E k \in CandidatesOf(i) : PairPassed(k)
           /\ \E k \in CandidatesOf(i) : ~PairPassed(k)

(***************************************************************************)
(* C3 - Filtered entries: exactly one filtered entry for each to-match id  *)
(* with at least one candidate and none that passes, with the entry's      *)
(* names, the duplicate-free union of the violating FA values of all its   *)
(* candidates and the duplicate-free union of their violating LCB values.  *)
(***************************************************************************)
AllCandidatesFail(i) ==
    /\ CandidatesOf(i) /= {}
    /\ \A k \in CandidatesOf(i) : ~PairPassed(k)

C3_FilteredEntries ==
    Returned =>
        /\ Len(matching_results.filtered_lipids)
               = Cardinality({i \in ToMatchIds : AllCandidatesFail(i)})
        /\ \A i \in ToMatchIds :
               AllCandidatesFail(i) =>
                   /\ Cardinality(FilteredEntriesOf(i)) = 1
                   /\ \A r \in FilteredEntriesOf(i) :
                          LET entry == matching_results.filtered_lipids[r]
                          IN  /\ NoDuplicates(entry.FA_VIOLATIONS)
                              /\ NoDuplicates(entry.LCB_VIOLATIONS)
                              /\ Range(entry.FA_VIOLATIONS)
                                     = UNION {ViolatingFasOf(k) : k \in CandidatesOf(i)}
                              /\ Range(entry.LCB_VIOLATIONS)
                                     = UNION {ViolatingLcbsOf(k) : k \in CandidatesOf(i)}
        /\ ( /\ to_match_ds = <<ToMatchPool[1]>>
             /\ match_to_ds = <<MatchToPool[1]>>
             /\ constraints_ds.fa_constraints = {"16:0"} )
               => matching_results.filtered_lipids
                      = << [ parsed_name |-> "PC 34:1", original_name |-> "PC 34:1",
                             FA_VIOLATIONS |-> <<"18:1">>,
                             LCB_VIOLATIONS |-> <<>> ] >>

\* A returned run with an entry whose two candidates both fail, with
\* different violating FA values.
C3_Witness ==
    /\ Returned
    /\ \E i \in ToMatchIds :
           /\ AllCandidatesFail(i)
           /\ \E k1, k2 \in CandidatesOf(i) :
                  /\ ViolatingFasOf(k1) /= {}
                  /\ ViolatingFasOf(k2) /= {}
                  /\ ViolatingFasOf(k1) /= ViolatingFasOf(k2)

(***************************************************************************)
(* C4 - parsed_no_match holds exactly the success-subset to-match entries  *)
(* that are in no candidate pair of the combiner output (before constraint *)
(* filtering); an entry whose candidates all fail validation is not in it. *)
(***************************************************************************)
C4_ParsedNoMatchIsSuccessSubsetWithoutPairs ==
    Returned =>
        /\ \A i \in ToMatchIds :
               InParsedNoMatch(i)
                   <=> (i \in success_index(to_match_ds) /\ CandidatesOf(i) = {})
        /\ \A i \in ToMatchIds : AllCandidatesFail(i) => ~InParsedNoMatch(i)

(***************************************************************************)
(* C5 - unparsed_no_match (original_name_no_match) holds exactly the       *)
(* failure-subset to-match entries (status failed, or parsed name          *)
(* "UNDEFINED") that are in no candidate pair; an "UNDEFINED" entry        *)
(* without a pair is listed there and not in parsed_no_match.              *)
(***************************************************************************)
C5_UnparsedNoMatchIsFailureSubsetWithoutPairs ==
    Returned =>
        \A i \in ToMatchIds :
            /\ InOriginalNameNoMatch(i)
                   <=> (i \in failure_index(to_match_ds) /\ CandidatesOf(i) = {})
            /\ (to_match_ds[i].parsed_name = UNDEFINED /\ CandidatesOf(i) = {})
                   => (InOriginalNameNoMatch(i) /\ ~InParsedNoMatch(i))

(***************************************************************************)
(* C6 - accepted matches: constrained_matches_info has exactly one row for *)
(* each candidate pair that passes validation and none for a failing pair; *)
(* the row carries the original and parsed names of both entries of the    *)
(* pair.                                                                   *)
(***************************************************************************)
AcceptedRowsOf(k) ==
    { r \in 1..Len(matching_results.constrained_matches_info) :
        /\ matching_results.constrained_matches_info[r].t = match_index_pairs[k].t
        /\ matching_results.constrained_matches_info[r].m = match_index_pairs[k].m }

C6_AcceptedMatches ==
    Returned =>
        /\ \A k \in PairRows :
               Cardinality(AcceptedRowsOf(k)) = BoolToNat(PairPassed(k))
        /\ Len(matching_results.constrained_matches_info)
               = Cardinality({k \in PairRows : PairPassed(k)})
        /\ \A r \in 1..Len(matching_results.constrained_matches_info) :
               LET row == matching_results.constrained_matches_info[r]
               IN  /\ row.to_match_original_name = to_match_ds[row.t].original_name
                   /\ row.to_match_parsed_name = to_match_ds[row.t].parsed_name
                   /\ row.match_to_original_name = match_to_ds[row.m].original_name
                   /\ row.match_to_parsed_name = match_to_ds[row.m].parsed_name

\* A returned run with a passing and a failing pair, the failing one first.
C6_Witness ==
    /\ Returned
    /\ \E k1, k2 \in PairRows : k1 < k2 /\ ~PairPassed(k1) /\ PairPassed(k2)

(***************************************************************************)
(* C7 - a candidate pair passes validation iff each of the four FA slots   *)
(* of its reference entry passes the FA rule (the normalized value is "",  *)
(* "N/A", "0:0" or in fa_constraints) and its LCB slot passes the LCB rule *)
(* (the value as stored is "", "N/A" or in lcb_constraints); the to-match  *)
(* entry's own FA and LCB fields play no part.                             *)
(***************************************************************************)
FaRule(normalized) ==
    normalized \in {"", "N/A", "0:0"} \cup constraints_ds.fa_constraints

LcbRule(lcb) == lcb \in {"", "N/A"} \cup constraints_ds.lcb_constraints

C7_PairPassesIffAllSlotsPass ==
    Validated =>
        \A k \in PairRows :
            PairPassed(k)
                <=> /\ \A slot \in FaSlots : FaRule(validation.processed_fas[k][slot])
                    /\ LcbRule(match_to_ds[match_index_pairs[k].m].lcb)

\* A pair passes although the to-match entry's own descriptors would fail
\* both rules, and another pair of the run fails.
C7_Witness ==
    /\ Validated
    /\ \E k \in PairRows :
           /\ PairPassed(k)
           /\ \E slot \in FaSlots :
                  ~FaRule(process_fa(to_match_ds[match_index_pairs[k].t].fas[slot]))
           /\ ~LcbRule(to_match_ds[match_index_pairs[k].t].lcb)
    /\ \E k \in PairRows : ~PairPassed(k)

(***************************************************************************)
(* C8 - an FA descriptor whose normalized value is "", "N/A" or "0:0"      *)
(* passes the FA check and an LCB descriptor "" or "N/A" passes the LCB    *)
(* check, also under constraint sets that contain none of these strings.   *)
(***************************************************************************)
C8_SentinelsAlwaysPass ==
    Validated =>
        \A k \in PairRows :
            /\ \A slot \in FaSlots :
                   validation.processed_fas[k][slot] \in {"", "N/A", "0:0"}
                       => validation.fa_constraint_masks[k][slot]
            /\ match_to_ds[match_index_pairs[k].m].lcb \in {"", "N/A"}
                   => validation.lcb_constraint_filter[k]

\* Validated pairs show all three exempt FA values and both exempt LCB
\* values, and the constraint sets contain none of them.
C8_Witness ==
    /\ Validated
    /\ constraints_ds.fa_constraints \cap {"", "N/A", "0:0"} = {}
    /\ constraints_ds.lcb_constraints \cap {"", "N/A"} = {}
    /\ \A v \in {"", "N/A", "0:0"} :
           \E k \in PairRows, slot \in FaSlots :
               validation.processed_fas[k][slot] = v
    /\ \A v \in {"", "N/A"} :
           \E k \in PairRows : match_to_ds[match_index_pairs[k].m].lcb = v

(***************************************************************************)
(* C9 - FA normalization.  As claimed: it strips a bond-alteration prefix  *)
(* "O-" or "P-" and a hydroxylation suffix ";<digits>OH" and changes       *)
(* nothing else, so an "O-"/"P-" that is not at the start and a            *)
(* ";<digits>OH" that is not at the end stay in place.                     *)
(***************************************************************************)
C9_NormalizationStripsPrefixAndSuffixOnly ==
    Validated =>
        \A k \in PairRows, slot \in FaSlots :
            validation.processed_fas[k][slot]
                = remove_hydroxylations_anchored(
                      remove_fa_bond_alterations_anchored(
                          match_to_ds[match_index_pairs[k].m].fas[slot]))

\* What the normalization yields for the descriptors of the reference pool
\* and for the two examples of the claim.
NormalizedExamples ==
    { <<"O-18:0;2OH", "18:0">>, <<"P-16:0", "16:0">>,
      <<"16:0", "16:0">>, <<"18:1", "18:1">>, <<"0:0", "0:0">>,
      <<"O-18:1;2OH", "18:1">>, <<"18:0;2OH;O-Me", "18:0;Me">>,
      <<"MISSING", "MISSING">>, <<"N/A", "N/A">>, <<"", "">> }

(***************************************************************************)
(* C9 (amended) - FA normalization removes every occurrence of "O-" or     *)
(* "P-" and then every occurrence of ";<digits>OH", wherever it stands in  *)
(* the descriptor, and changes nothing else: "O-18:0;2OH" gives "18:0",    *)
(* "P-16:0" gives "16:0", and "18:0;2OH;O-Me" gives "18:0;Me".             *)
(***************************************************************************)
C9_NormalizationRemovesEveryOccurrence ==
    Validated =>
        /\ \A ex \in NormalizedExamples : process_fa(ex[1]) = ex[2]
        /\ \A k \in PairRows, slot \in FaSlots :
               << match_to_ds[match_index_pairs[k].m].fas[slot],
                  validation.processed_fas[k][slot] >> \in NormalizedExamples

\* A validated pair whose reference entry has a modifier inside a
\* descriptor and another one with a prefix and a suffix.
C9_Witness ==
    /\ Validated
    /\ \E k \in PairRows, slot \in FaSlots :
           /\ match_to_ds[match_index_pairs[k].m].fas[slot] = "18:0;2OH;O-Me"
           /\ validation.processed_fas[k][slot] = "18:0;Me"
    /\ \E k \in PairRows, slot \in FaSlots :
           /\ match_to_ds[match_index_pairs[k].m].fas[slot] = "O-18:1;2OH"
           /\ validation.processed_fas[k][slot] = "18:1"

(***************************************************************************)
(* C10 - violation records.  As claimed: the record of a failing candidate *)
(* lists only the descriptors that failed, each FA value as the descriptor *)
(* after normalization.                                                    *)
(***************************************************************************)
ViolationRecordRows(value_of(_, _)) ==
    { [ index |-> match_index_pairs[k].m,
        fas   |-> [ slot \in FaSlots |->
                      IF validation.fa_constraint_masks[k][slot] THEN NaN
                      ELSE value_of(k, slot) ] ] :
        k \in {r \in PairRows : \E slot \in FaSlots :
                                   ~validation.fa_constraint_masks[r][slot]} }

LcbViolationRecordRows ==
    { [ index |-> match_index_pairs[k].m,
        lcb   |-> match_to_ds[match_index_pairs[k].m].lcb ] :
        k \in {r \in PairRows : ~validation.lcb_constraint_filter[r]} }

C10_ViolationsListNormalizedValues ==
    Validated =>
        /\ Range(validation.fa_violations)
               = ViolationRecordRows(LAMBDA k, slot : validation.processed_fas[k][slot])
        /\ Range(validation.lcb_violations) = LcbViolationRecordRows

(***************************************************************************)
(* C10 (amended) - the record of a failing candidate lists only the        *)
(* descriptors that failed, each FA value as it is stored in the reference *)
(* entry, not normalized: a violating "O-18:1;2OH" is reported as          *)
(* "O-18:1;2OH", so two slots that differ only by a stripped prefix or     *)
(* suffix contribute two values to a filtered entry's FA list.             *)
(***************************************************************************)
C10_ViolationsListStoredValues ==
    Validated =>
        /\ Range(validation.fa_violations)
               = ViolationRecordRows(
                     LAMBDA k, slot : match_to_ds[match_index_pairs[k].m].fas[slot])
        /\ Range(validation.lcb_violations) = LcbViolationRecordRows
        /\ \A r \in 1..Len(filtering_results.filtered_lipids) :
               \A v \in Range(filtering_results.filtered_lipids[r].FA_VIOLATIONS) :
                   \E k \in PairRows, slot \in FaSlots :
                       /\ ~validation.fa_constraint_masks[k][slot]
                       /\ v = match_to_ds[match_index_pairs[k].m].fas[slot]

\* A filtered entry lists "18:1" and "O-18:1;2OH", which normalize to the
\* same value, while the passing slot "P-16:0" of one of its candidates is
\* not listed.
C10_Witness ==
    /\ Validated
    /\ \E r \in 1..Len(filtering_results.filtered_lipids) :
           /\ {"18:1", "O-18:1;2OH"}
                  \subseteq Range(filtering_results.filtered_lipids[r].FA_VIOLATIONS)
           /\ {"P-16:0", "16:0"}
                  \cap Range(filtering_results.filtered_lipids[r].FA_VIOLATIONS) = {}

(***************************************************************************)
(* Vocabulary of the matcher properties.                                   *)
(***************************************************************************)
\* The positions of the call after each matcher has returned.
ConstraintsConstructed ==
    /\ pc /= "constraints_dataset_post_init"
    /\ raised \notin { "ValueError: FA constraints series empty.",
                        "ValueError: LCB constraints series empty." }

DatasetConstructed ==
    /\ ConstraintsConstructed
    /\ pc /= "parsed_dataset_init"
    /\ raised \notin { "ValueError: Index name",
                        "ValueError: Missing columns in dataset" }

ParsedNameMatched == DatasetConstructed /\ pc /= "match_by_parsed_name"

SynonymsMatched ==
    /\ DatasetConstructed
    /\ pc \notin {"match_by_parsed_name", "match_by_parsed_name_with_synonyms"}

OriginalNameMatched ==
    /\ SynonymsMatched
    /\ pc /= "match_by_original_name"
    /\ raised /= "MergeError"

Combined ==
    /\ OriginalNameMatched
    /\ pc /= "combine_case_matches"
    /\ raised /= "ValueError"

AllPairs(ds) == [t : 1..Len(ds), m : 1..Len(match_to_ds)]

IsLevel(level) == level \in Range(ClassificationColumns)

\* The pairs of the rows of ds with the reference rows that hold the parsed
\* name of the row at the level of the row.
LevelPairsOf(ds) ==
    { p \in AllPairs(ds) :
        /\ IsLevel(ds[p.t].level)
        /\ match_to_ds[p.m].classification[ds[p.t].level] = ds[p.t].parsed_name }

(***************************************************************************)
(* C11 - LevelMatcher: _match_by_parsed_name yields the pair (t, m)         *)
(* exactly when the level of t is a classification column of the reference *)
(* dataset and the parsed name of t equals the value of m at that level;   *)
(* every such reference row yields its own pair, once.                     *)
(***************************************************************************)
C11_LevelMatcher ==
    ParsedNameMatched =>
        /\ Range(generic_match_index_pairs) = LevelPairsOf(to_match_ds)
        /\ NoDuplicates(generic_match_index_pairs)

\* A to-match row with two partners, and a row whose parsed name equals a
\* reference value at a level that is not its own and that has no pair
\* with that reference row.
C11_Witness ==
    /\ ParsedNameMatched
    /\ \E t \in ToMatchIds :
           Cardinality({p \in Range(generic_match_index_pairs) : p.t = t}) >= 2
    /\ \E p \in AllPairs(to_match_ds) :
           /\ IsLevel(to_match_ds[p.t].level)
           /\ \E lv \in Range(ClassificationColumns) \ {to_match_ds[p.t].level} :
                  match_to_ds[p.m].classification[lv] = to_match_ds[p.t].parsed_name
           /\ p \notin Range(generic_match_index_pairs)

(***************************************************************************)
(* C12 - LevelMatcher pairs success-subset rows only: a row with status    *)
(* failed or with the parsed name "UNDEFINED" is never the to-match side   *)
(* of a pair of _match_by_parsed_name, whatever its level holds and        *)
(* whatever the reference rows hold at that level.                         *)
(***************************************************************************)
C12_LevelMatcherPairsOnlySuccessSubset ==
    ParsedNameMatched =>
        \A p \in Range(generic_match_index_pairs) :
            p.t \in success_index(to_match_ds)

\* The part of C12 about rows with status failed.
C12_FailedRowsHaveNoLevelPair ==
    ParsedNameMatched =>
        \A p \in Range(generic_match_index_pairs) :
            to_match_ds[p.t].status /= failure_label

(***************************************************************************)
(* C13 - FallbackMatcher: _match_by_original_name yields the pair (t, m)    *)
(* for every to-match row t and reference row m with equal original names, *)
(* whatever their parse status; a failed to-match row whose original name  *)
(* is the original name of a reference row has a candidate pair and is not *)
(* listed in original_name_no_match.                                       *)
(***************************************************************************)
OriginalNamePairs ==
    { p \in AllPairs(to_match_ds) :
        match_to_ds[p.m].original_name = to_match_ds[p.t].original_name }

C14_EmptyOriginalNameNeverJoined ==
    OriginalNameMatched =>
        \A p \in Range(original_name_match_index_pairs) :
            to_match_ds[p.t].original_name /= ""

(***************************************************************************)
(* C15 - SynonymMatcher: for every configured (class, synonym) such that   *)
(* a to-match parsed name starts with the class, the output holds every    *)
(* pair that LevelMatcher yields on the to-match dataset with the class    *)
(* replaced by the synonym in every parsed name; the output is the union   *)
(* of these pairs without duplicates.  Under the default table a to-match  *)
(* "HexCer X" at level L is paired with every reference row whose value at *)
(* level L is "GlcCer X" or "GalCer X".                                    *)
(***************************************************************************)
Renamed(lipid_class, synonym) ==
    List([ i \in 1..Len(to_match_ds) |->
             [ to_match_ds[i] EXCEPT
                 !.parsed_name = str_replace(@, lipid_class, synonym) ] ])

ClassIsPrefix(lipid_class) ==
    \E i \in ToMatchIds : startswith(to_match_ds[i].parsed_name, lipid_class)

SynonymPairsOf(table) ==
    UNION { UNION { LevelPairsOf(Renamed(table[n].key, table[n].synonyms[k])) :
                      k \in 1..Len(table[n].synonyms) } :
              n \in {r \in 1..Len(table) : ClassIsPrefix(table[r].key)} }

C15_SynonymMatcher ==
    pc = "match_by_original_name" =>
        /\ Range(synonym_match_index_pairs)
               = SynonymPairsOf(proc_class_synonyms(class_synonyms))
        /\ NoDuplicates(synonym_match_index_pairs)
        /\ class_synonyms.is_none =>
               \A p \in AllPairs(to_match_ds) :
                   /\ startswith(to_match_ds[p.t].parsed_name, "HexCer")
                   /\ IsLevel(to_match_ds[p.t].level)
                   /\ match_to_ds[p.m].classification[to_match_ds[p.t].level]
                          \in { str_replace(to_match_ds[p.t].parsed_name,
                                            "HexCer", syn) :
                                  syn \in {"GlcCer", "GalCer"} }
                   => p \in Range(synonym_match_index_pairs)

\* Under the default table a "HexCer" row is paired with a "GlcCer" and
\* with a "GalCer" reference row.
C15_Witness ==
    /\ pc = "match_by_original_name"
    /\ class_synonyms.is_none
    /\ \E p, q \in Range(synonym_match_index_pairs) :
           /\ p.t = q.t
           /\ to_match_ds[p.t].parsed_name = "HexCer 34:1;2"
           /\ match_to_ds[p.m].classification["SPECIES"] = "GlcCer 34:1;2"
           /\ match_to_ds[q.m].classification["SPECIES"] = "GalCer 34:1;2"

(***************************************************************************)
(* C16 - scenario 3: default synonym table, a to-match row with canonical  *)
(* name "GlcCer 34:1;2", no to-match name starting with "HexCer", and a    *)
(* reference row with species "GlcCer 34:1;2".                             *)
(***************************************************************************)
Scenario3Pairs ==
    { p \in AllPairs(to_match_ds) :
        /\ to_match_ds[p.t].parsed_name = "GlcCer 34:1;2"
        /\ to_match_ds[p.t].level = "SPECIES"
        /\ match_to_ds[p.m].classification["SPECIES"] = "GlcCer 34:1;2" }

Scenario3 ==
    /\ pc = "match_by_original_name"
    /\ class_synonyms.is_none
    /\ ~ClassIsPrefix("HexCer")
    /\ Scenario3Pairs /= {}

\* C16 as stated: in scenario 3 SynonymMatcher yields the pair and
\* LevelMatcher yields no pair for the entry.
C16_SynonymMatcherFindsWhatLevelMatcherMisses ==
    Scenario3 =>
        \A p \in Scenario3Pairs :
            /\ p \in Range(synonym_match_index_pairs)
            /\ \A q \in Range(generic_match_index_pairs) : q.t /= p.t

\* C16 amended: in scenario 3 LevelMatcher yields the pair itself (the
\* names are equal), SynonymMatcher yields no pair at all (no to-match
\* name starts with "HexCer", so the rule is skipped), and the pair is in
\* the combined candidate set.
C16_LevelMatcherFindsScenario3Pair ==
    /\ Scenario3 =>
           /\ Scenario3Pairs \subseteq Range(generic_match_index_pairs)
           /\ synonym_match_index_pairs = <<>>
    /\ (Combined /\ class_synonyms.is_none /\ ~ClassIsPrefix("HexCer")) =>
           Scenario3Pairs \subseteq Range(match_index_pairs)

C16_Witness ==
    /\ Combined
    /\ class_synonyms.is_none
    /\ ~ClassIsPrefix("HexCer")
    /\ synonym_match_index_pairs = <<>>
    /\ \E p \in Scenario3Pairs :
           /\ p \in Range(generic_match_index_pairs)
           /\ p \in Range(match_index_pairs)

(***************************************************************************)
(* C17 - a synonym rule whose class is the prefix of no to-match canonical *)
(* name is a no-op and not an error: the synonym step always completes     *)
(* without raising, and its output equals the output computed from the     *)
(* table with that rule removed (the rule contributes no pair).            *)
(***************************************************************************)
RemoveRule(table, n) ==
    SubSeq(table, 1, n - 1) \o SubSeq(table, n + 1, Len(table))

UnusedRules(table) ==
    { n \in 1..Len(table) : ~ClassIsPrefix(table[n].key) }

C17_UnusedSynonymRuleIsNoOp ==
    /\ [](pc = "match_by_original_name" =>
            LET table == proc_class_synonyms(class_synonyms)
            IN  \A n \in UnusedRules(table) :
                    /\ synonym_match_index_pairs
                           = match_by_parsed_name_with_synonyms(
                                 to_match_ds, match_to_ds, RemoveRule(table, n))
                    /\ Range(synonym_match_index_pairs)
                           = SynonymPairsOf(RemoveRule(table, n)))
    /\ [][pc = "match_by_parsed_name_with_synonyms" =>
              /\ pc' = "match_by_original_name"
              /\ raised' = raised]_vars

\* A completed run whose table holds a rule that applies (it produced a
\* pair) and a rule whose class is the prefix of no to-match name, while
\* LevelMatcher found pairs the unused rule would have repeated.
C17_Witness ==
    /\ Returned
    /\ UnusedRules(proc_class_synonyms(class_synonyms)) /= {}
    /\ synonym_match_index_pairs /= <<>>
    /\ generic_match_index_pairs /= <<>>

(***************************************************************************)
(* C18 - the effective synonym table is the default table merged with the  *)
(* caller's mapping, the caller winning on a key collision: every key      *)
(* occurs once; a caller key carries the caller's list; a default key the  *)
(* caller does not have carries the default list; with no caller mapping   *)
(* the table is the default.  The synonym step tries exactly the synonyms  *)
(* of that table.                                                          *)
(***************************************************************************)
CallerItems == IF class_synonyms.is_none THEN <<>> ELSE class_synonyms.items

KeysOf(table) == { table[n].key : n \in 1..Len(table) }

ExpectedSynonymTable ==
    CallerItems
    \o SelectSeq(_DEFAULT_SYNONYMS, LAMBDA item : item.key \notin KeysOf(CallerItems))

C18_CallerSynonymsOverrideDefault ==
    pc = "match_by_original_name" =>
        LET table == proc_class_synonyms(class_synonyms)
        IN  /\ \A a, b \in 1..Len(table) : table[a].key = table[b].key => a = b
            /\ Range(table) = Range(ExpectedSynonymTable)
            /\ class_synonyms.is_none => table = _DEFAULT_SYNONYMS
            /\ Range(synonym_match_index_pairs) = SynonymPairsOf(ExpectedSynonymTable)

\* The caller maps "HexCer" to "GalCer" only: a "HexCer" row is paired
\* with the "GalCer" reference row and not with the "GlcCer" one, which
\* the default list would have found.
C18_Witness ==
    /\ pc = "match_by_original_name"
    /\ "HexCer" \in KeysOf(CallerItems)
    /\ \E t \in ToMatchIds, m, g \in 1..Len(match_to_ds) :
           /\ to_match_ds[t].parsed_name = "HexCer 34:1;2"
           /\ match_to_ds[m].classification["SPECIES"] = "GalCer 34:1;2"
           /\ match_to_ds[g].classification["SPECIES"] = "GlcCer 34:1;2"
           /\ [t |-> t, m |-> m] \in Range(synonym_match_index_pairs)
           /\ [t |-> t, m |-> g] \notin Range(synonym_match_index_pairs)

(***************************************************************************)
(* C19 - CandidateCombiner returns the set union of the three matchers'    *)
(* outputs: whenever the three matchers have run, the combiner returns; a  *)
(* pair is in its output iff it is in at least one input; each pair occurs *)
(* once; the result does not depend on the order of the inputs.            *)
(***************************************************************************)
CaseMatchesUnion ==
    Range(generic_match_index_pairs) \cup Range(synonym_match_index_pairs)
        \cup Range(original_name_match_index_pairs)

InputOrders == { f \in [1..3 -> 1..3] : \A a, b \in 1..3 : f[a] = f[b] => a = b }

CombinerIsSetUnion ==
    /\ Range(match_index_pairs) = CaseMatchesUnion
    /\ NoDuplicates(match_index_pairs)
    /\ \A f \in InputOrders :
           LET frames == <<case_matches[f[1]], case_matches[f[2]], case_matches[f[3]]>>
           IN  /\ combine_has_frames(frames)
               /\ Range(combine_case_matches(frames)) = Range(match_index_pairs)

C19_CombinerReturnsSetUnion ==
    (OriginalNameMatched /\ pc /= "combine_case_matches") =>
        /\ raised = "none"
        /\ CombinerIsSetUnion

\* The part of C19 that the code satisfies: whenever the combiner returns,
\* its output is the duplicate-free union, whatever the input order.
C19_CombinerIsSetUnionWhenItReturns ==
    pc = "compile_unfiltered_matching_results" => CombinerIsSetUnion

\* A pair produced by two matchers occurs once in the combined output.
C19_SharedPairOccursOnce ==
    /\ pc = "compile_unfiltered_matching_results"
    /\ \E p \in Range(generic_match_index_pairs)
                 \cap Range(original_name_match_index_pairs) :
           Cardinality({ k \in 1..Len(match_index_pairs) :
                           match_index_pairs[k] = p }) = 1

EmptyConstraintsInput ==
    \/ constraints_input.fa_constraints = {}
    \/ constraints_input.lcb_constraints = {}

C20_ConstructionState ==
    /\ (EmptyConstraintsInput /\ pc /= "constraints_dataset_post_init") =>
           (/\ pc = "raised"
            /\ ~ConstraintsConstructed
            /\ constraints_ds = NoConstraints
            /\ matching_results = NoResults)
    /\ (pc \notin {"constraints_dataset_post_init", "raised"}) =>
           (/\ constraints_ds.fa_constraints /= {}
            /\ constraints_ds.lcb_constraints /= {})

C20_ConstructionStep ==
    (pc = "constraints_dataset_post_init" /\ EmptyConstraintsInput) =>
        (/\ pc' = "raised"
         /\ raised' = IF constraints_input.fa_constraints = {}
                      THEN "ValueError: FA constraints series empty."
                      ELSE "ValueError: LCB constraints series empty.")

(***************************************************************************)
(* C20 - constructing a ConstraintsDataset with an empty FA series or an   *)
(* empty LCB series fails at construction with a ValueError, so no         *)
(* matching run ever executes with an empty fa_constraints or              *)
(* lcb_constraints set.                                                    *)
(***************************************************************************)
C20_EmptyConstraintsFailAtConstruction ==
    []C20_ConstructionState /\ [][C20_ConstructionStep]_vars

\* A construction with a non-empty FA series and an empty LCB series has
\* raised.
C20_Witness ==
    /\ pc = "raised"
    /\ constraints_input.fa_constraints /= {}
    /\ constraints_input.lcb_constraints = {}
    /\ raised = "ValueError: LCB constraints series empty."

LacksRequiredField ==
    \E c \in col_names_list : c \notin to_match_df.columns \cup {to_match_df.index_name}

C21_ConstructionState ==
    /\ (LacksRequiredField
         /\ pc \notin {"constraints_dataset_post_init", "parsed_dataset_init"}) =>
           (/\ pc = "raised"
            /\ raised \in {"ValueError: Index name",
                           "ValueError: Missing columns in dataset"}
            /\ to_match_ds = NoDataset
            /\ generic_match_index_pairs = <<>>
            /\ synonym_match_index_pairs = <<>>
            /\ original_name_match_index_pairs = <<>>
            /\ match_index_pairs = <<>>
            /\ unfiltered_matching_results = NoUnfiltered
            /\ filtering_results = NoFiltering
            /\ matching_results = NoResults)
    /\ DatasetConstructed =>
           (~LacksRequiredField /\ to_match_ds = to_match_df.rows)

C21_ConstructionStep ==
    (pc = "parsed_dataset_init" /\ LacksRequiredField) =>
        (pc' = "raised" /\ raised' /= "none" /\ to_match_ds' = NoDataset)

(***************************************************************************)
(* C21 - constructing a ParsedDataset from a table that lacks one of the   *)
(* required fields fails with an error at construction: the step raises,   *)
(* no dataset object exists, no matcher has run and no result, partial or  *)
(* whole, exists; every matcher runs on a dataset with every field.        *)
(***************************************************************************)
C21_SchemaMismatchFailsAtConstruction ==
    []C21_ConstructionState /\ [][C21_ConstructionStep]_vars

\* The construction from a frame without the LEVEL column has raised.
C21_Witness ==
    /\ pc = "raised"
    /\ "LEVEL" \notin to_match_df.columns
    /\ to_match_df.index_name = "INDEX"
    /\ raised = "ValueError: Missing columns in dataset"

(***************************************************************************)
(* Vocabulary of the summary properties.                                   *)
(***************************************************************************)
Summarised == pc = "summarised"

\* The summary was built over the dataset that was matched.
SummaryOfMatchedDataset ==
    Summarised /\ matching_summary.matching_dataset = to_match_ds

FailedEntries ==
    { i \in ToMatchIds :
        \/ InParsedNoMatch(i)
        \/ InOriginalNameNoMatch(i)
        \/ FilteredEntriesOf(i) /= {} }

(***************************************************************************)
(* C22 - for a MatchingSummary built from the outcome of matching a        *)
(* non-empty dataset and that same dataset, num_failures is the sum of the *)
(* sizes of parsed_no_match, original_name_no_match and filtered_lipids,   *)
(* 0 <= num_failures <= num_lipids, and failure_proportion is their        *)
(* quotient, which lies in [0, 1].                                         *)
(***************************************************************************)
C22_FailureRatioInUnitInterval ==
    SummaryOfMatchedDataset =>
        LET d == matching_summary.summary_dict
        IN  /\ d.num_lipids = Len(to_match_ds)
            /\ d.num_lipids > 0
            /\ d.num_failures = Len(matching_results.parsed_no_match)
                                    + Len(matching_results.original_name_no_match)
                                    + Len(matching_results.filtered_lipids)
            /\ d.num_failures = Cardinality(FailedEntries)
            /\ 0 <= d.num_failures
            /\ d.num_failures <= d.num_lipids
            /\ matching_summary.failure_proportion = <<d.num_failures, d.num_lipids>>

\* A summary with a failure proportion strictly between 0 and 1.
C22_Witness ==
    /\ SummaryOfMatchedDataset
    /\ matching_summary.summary_dict.num_failures > 0
    /\ matching_summary.summary_dict.num_failures
           < matching_summary.summary_dict.num_lipids

(***************************************************************************)
(* C23 - building a MatchingSummary over a dataset with zero entries fails *)
(* with a division-by-zero error, and no summary object exists; every      *)
(* summary object has a positive divisor.                                  *)
(***************************************************************************)
C23_EmptySourceRaisesDivisionByZero ==
    /\ raised = "ZeroDivisionError" =>
           (pc = "raised" /\ matching_summary = NoSummary)
    /\ matching_summary /= NoSummary =>
           (/\ Len(matching_summary.matching_dataset) > 0
            /\ matching_summary.failure_proportion[2] > 0)
    /\ pc = "done" => ENABLED BuildMatchingSummaryRaises

C23_Witness ==
    /\ raised = "ZeroDivisionError"
    /\ matching_results /= NoResults
    /\ matching_summary = NoSummary

(***************************************************************************)
(* Vocabulary of the two-run properties.                                   *)
(***************************************************************************)
OutcomeAsSets(results) ==
    [ matches |-> Range(results.constrained_matches_info),
      parsed_no_match |-> Range(results.parsed_no_match),
      unparsed_no_match |-> Range(results.original_name_no_match),
      filtered |->
          { [ parsed_name |-> results.filtered_lipids[k].parsed_name,
              original_name |-> results.filtered_lipids[k].original_name,
              FA_VIOLATIONS |-> Range(results.filtered_lipids[k].FA_VIOLATIONS),
              LCB_VIOLATIONS |-> Range(results.filtered_lipids[k].LCB_VIOLATIONS) ] :
              k \in 1..Len(results.filtered_lipids) } ]

SecondRun == previous_run.ran

CallPositions ==
    { "match_by_parsed_name", "match_by_parsed_name_with_synonyms",
      "match_by_original_name", "combine_case_matches",
      "compile_unfiltered_matching_results", "filter_matches", "return" }

C25_CallStep ==
    pc \in CallPositions =>
        /\ to_match_ds' = to_match_ds
        /\ match_to_ds' = match_to_ds
        /\ constraints_ds' = constraints_ds
        /\ class_synonyms' = class_synonyms

C25_ReturnedState ==
    Returned =>
        /\ to_match_ds = to_match_df.rows
        /\ constraints_ds.fa_constraints = constraints_input.fa_constraints
        /\ constraints_ds.lcb_constraints = constraints_input.lcb_constraints

(***************************************************************************)
(* C25 - a matching run leaves its inputs unchanged: no step of            *)
(* perform_constrained_match changes a field of a to-match or reference    *)
(* entry, a constraint set or the caller's synonym mapping, and when the   *)
(* call has returned the datasets and constraints are the ones that were   *)
(* constructed before it (the canonical names that SynonymMatcher rewrote  *)
(* in its derived dataset included).                                       *)
(***************************************************************************)
C25_InputsUnchanged == []C25_ReturnedState /\ [][C25_CallStep]_vars

\* SynonymMatcher has rewritten "HexCer" names in its derived dataset and
\* found pairs with them; the call has returned and the to-match dataset
\* still holds the "HexCer" name.
C25_Witness ==
    /\ Returned
    /\ \E p \in Range(synonym_match_index_pairs) :
           /\ to_match_ds[p.t].parsed_name = "HexCer 34:1;2"
           /\ match_to_ds[p.m].classification["SPECIES"] /= "HexCer 34:1;2"

(***************************************************************************)
(* Vocabulary of the stage order.                                          *)
(***************************************************************************)
\* ConstraintValidator (_filter_matches) has produced its masks.
ValidatorCompleted == validation /= NoValidation

\* CandidateCombiner has the complete output of the three matchers.
CombinerComplete ==
    /\ Combined
    /\ Range(match_index_pairs) = CaseMatchesUnion

\* A part of the result has been computed.
NoMatchListsComputed == unfiltered_matching_results /= NoUnfiltered

AcceptedAndFilteredComputed == filtering_results /= NoFiltering

C26_OrderState ==
    /\ ValidatorCompleted => (CombinerComplete /\ NoMatchListsComputed)
    /\ AcceptedAndFilteredComputed => ValidatorCompleted
    /\ matching_results /= NoResults =>
           (ValidatorCompleted /\ AcceptedAndFilteredComputed)
    /\ NoMatchListsComputed => CombinerComplete

C26_OrderStep ==
    /\ validation' /= validation =>
           (/\ pc = "filter_matches"
            /\ CombinerComplete
            /\ NoMatchListsComputed
            /\ unfiltered_matching_results' = unfiltered_matching_results)
    /\ unfiltered_matching_results' /= unfiltered_matching_results =>
           (/\ pc = "compile_unfiltered_matching_results"
            /\ ~ValidatorCompleted
            /\ validation' = validation)

C27_NoCandidatePairReturnsResult ==
    (/\ OriginalNameMatched
     /\ pc /= "combine_case_matches"
     /\ CaseMatchesUnion = {}) =>
        /\ raised /= "ValueError"
        /\ pc /= "raised"
        /\ Returned =>
               /\ matching_results.constrained_matches_info = <<>>
               /\ matching_results.filtered_lipids = <<>>
               /\ \A i \in ToMatchIds :
                      InParsedNoMatch(i) \/ InOriginalNameNoMatch(i)

\* What the code does instead: with no candidate pair the call ends in
\* the ValueError of pandas.concat and no result exists.
C27_NoCandidatePairRaises ==
    (/\ OriginalNameMatched
     /\ pc /= "combine_case_matches"
     /\ CaseMatchesUnion = {}) =>
        /\ pc = "raised"
        /\ raised = "ValueError"
        /\ matching_results = NoResults

\* The run of an unparsed entry without an equal original name has raised.
C27_RaisedWithoutPairs ==
    /\ pc = "raised"
    /\ raised = "ValueError"
    /\ \E i \in ToMatchIds : to_match_ds[i].status = failure_label
    /\ CaseMatchesUnion = {}

(***************************************************************************)
(* C28 - four-bucket partition: in every returned result each to-match     *)
(* entry, parsed or not, is in exactly one of: the entries with an         *)
(* accepted match, parsed_no_match, unparsed_no_match                      *)
(* (original_name_no_match), filtered; so the number of distinct to-match  *)
(* ids among the accepted matches plus the sizes of the three lists is the *)
(* size of the to-match dataset.                                           *)
(***************************************************************************)
AcceptedIds ==
    { matching_results.constrained_matches_info[k].t :
        k \in 1..Len(matching_results.constrained_matches_info) }

C28_FourBucketPartition ==
    Returned =>
        /\ \A i \in ToMatchIds :
               BoolToNat(i \in AcceptedIds) + BoolToNat(InParsedNoMatch(i))
                   + BoolToNat(InOriginalNameNoMatch(i))
                   + BoolToNat(FilteredEntriesOf(i) /= {}) = 1
        /\ Cardinality(AcceptedIds) + Len(matching_results.parsed_no_match)
               + Len(matching_results.original_name_no_match)
               + Len(matching_results.filtered_lipids) = Len(to_match_ds)
        /\ AcceptedIds \subseteq ToMatchIds

\* A returned result with an unparsed entry that has an accepted match
\* beside an entry in a no-match list.
C28_Witness ==
    /\ Returned
    /\ \E i \in AcceptedIds : to_match_ds[i].status = failure_label
    /\ \E i \in ToMatchIds : InParsedNoMatch(i) \/ InOriginalNameNoMatch(i)

(***************************************************************************)
(* Vocabulary of the fallback join.                                        *)
(***************************************************************************)
DuplicateToMatchName ==
    \E i, j \in ToMatchIds :
        i /= j /\ to_match_ds[i].original_name = to_match_ds[j].original_name

DuplicateNameMatchesNothing ==
    \A i, j \in ToMatchIds :
        (i /= j /\ to_match_ds[i].original_name = to_match_ds[j].original_name) =>
            \A m \in 1..Len(match_to_ds) :
                match_to_ds[m].original_name /= to_match_ds[i].original_name

C29_JoinState ==
    /\ (DuplicateToMatchName /\ SynonymsMatched /\ pc /= "match_by_original_name") =>
           (/\ pc = "raised"
            /\ raised = "MergeError"
            /\ match_index_pairs = <<>>
            /\ matching_results = NoResults
            /\ matching_summary = NoSummary)
    /\ (~DuplicateToMatchName) => raised /= "MergeError"
    /\ OriginalNameMatched =>
           \A t \in ToMatchIds : \A m \in 1..Len(match_to_ds) :
               match_to_ds[m].original_name = to_match_ds[t].original_name =>
                   Cardinality({ k \in 1..Len(original_name_match_index_pairs) :
                                   original_name_match_index_pairs[k]
                                       = [t |-> t, m |-> m] }) = 1

C29_JoinStep ==
    (pc = "match_by_original_name" /\ DuplicateToMatchName) =>
        (pc' = "raised" /\ raised' = "MergeError")

(***************************************************************************)
(* C29 - perform_constrained_match aborts with an error and returns no     *)
(* result whenever two to-match entries have the same original_name, even  *)
(* if that name matches nothing in match_to; reference entries that share  *)
(* one original_name are accepted, and each yields its own pair.           *)
(***************************************************************************)
C29_DuplicateToMatchNameAborts == []C29_JoinState /\ [][C29_JoinStep]_vars

\* The call has aborted for two to-match entries of one name that no
\* reference entry has.
C29_Witness ==
    /\ pc = "raised"
    /\ raised = "MergeError"
    /\ DuplicateToMatchName
    /\ DuplicateNameMatchesNothing

\* Two reference entries of one original name are each paired with the
\* to-match entry of that name.
C29_SharedReferenceName ==
    /\ OriginalNameMatched
    /\ \E p, q \in Range(original_name_match_index_pairs) :
           /\ p.t = q.t
           /\ p.m /= q.m
           /\ match_to_ds[p.m].original_name = match_to_ds[q.m].original_name

(***************************************************************************)
(* C30 - the "MISSING" sentinel is not exempt from constraint checking: a  *)
(* candidate whose reference entry has "MISSING" in an FA slot (or as its  *)
(* LCB) fails validation unless "MISSING" is a member of fa_constraints    *)
(* (lcb_constraints), and "MISSING" is then among the reported violating   *)
(* values; the only values that pass without being in the constraints are  *)
(* "N/A", the empty string and, for FA, "0:0".                             *)
(***************************************************************************)
ReferenceOf(k) == match_to_ds[match_index_pairs[k].m]

C30_MissingIsNotExempt ==
    Validated =>
        \A k \in PairRows :
            /\ \A slot \in FaSlots :
                   /\ ReferenceOf(k).fas[slot] = "MISSING" =>
                          /\ validation.fa_constraint_masks[k][slot]
                                 <=> "MISSING" \in constraints_ds.fa_constraints
                          /\ "MISSING" \notin constraints_ds.fa_constraints =>
                                 /\ ~PairPassed(k)
                                 /\ \E r \in 1..Len(validation.fa_violations) :
                                        /\ validation.fa_violations[r].index
                                               = match_index_pairs[k].m
                                        /\ validation.fa_violations[r].fas[slot]
                                               = "MISSING"
                                 /\ (Returned /\ AllCandidatesFail(match_index_pairs[k].t)) =>
                                        \A e \in FilteredEntriesOf(match_index_pairs[k].t) :
                                            "MISSING" \in Range(matching_results
                                                .filtered_lipids[e].FA_VIOLATIONS)
                   /\ (/\ validation.fa_constraint_masks[k][slot]
                       /\ validation.processed_fas[k][slot]
                              \notin constraints_ds.fa_constraints) =>
                          validation.processed_fas[k][slot] \in {"", "N/A", "0:0"}
            /\ ReferenceOf(k).lcb = "MISSING" =>
                   /\ validation.lcb_constraint_filter[k]
                          <=> "MISSING" \in constraints_ds.lcb_constraints
                   /\ "MISSING" \notin constraints_ds.lcb_constraints =>
                          /\ ~PairPassed(k)
                          /\ \E r \in 1..Len(validation.lcb_violations) :
                                 /\ validation.lcb_violations[r].index
                                        = match_index_pairs[k].m
                                 /\ validation.lcb_violations[r].lcb = "MISSING"
                          /\ (Returned /\ AllCandidatesFail(match_index_pairs[k].t)) =>
                                 \A e \in FilteredEntriesOf(match_index_pairs[k].t) :
                                     "MISSING" \in Range(matching_results
                                         .filtered_lipids[e].LCB_VIOLATIONS)
            /\ (/\ validation.lcb_constraint_filter[k]
                /\ ReferenceOf(k).lcb \notin constraints_ds.lcb_constraints) =>
                   ReferenceOf(k).lcb \in {"", "N/A"}

\* A returned run whose only candidate has "MISSING" FA slots and a
\* "MISSING" LCB: it is filtered with "MISSING" in both violation lists.
C30_Witness ==
    /\ Returned
    /\ \E k \in PairRows :
           /\ ReferenceOf(k).fas[1] = "MISSING"
           /\ ReferenceOf(k).lcb = "MISSING"
           /\ ~PairPassed(k)
           /\ \E e \in FilteredEntriesOf(match_index_pairs[k].t) :
                  /\ "MISSING" \in Range(matching_results.filtered_lipids[e].FA_VIOLATIONS)
                  /\ "MISSING" \in Range(matching_results.filtered_lipids[e].LCB_VIOLATIONS)

\* With "MISSING" among the constraints the same candidate is accepted.
C30_MissingInConstraintsPasses ==
    /\ Returned
    /\ "MISSING" \in constraints_ds.fa_constraints
    /\ \E k \in PairRows :
           /\ ReferenceOf(k).fas[1] = "MISSING"
           /\ ReferenceOf(k).lcb = "MISSING"
           /\ PairPassed(k)

====
